---- MODULE Spec2Model ----
(***************************************************************************)
(* Market-intelligence and ML signal engine: the model registry and the    *)
(* training cycle, the prediction store and the outcome resolver, the      *)
(* inference and market-intel signal emission, and the rate limiter.       *)
(*                                                                         *)
(* Numbers: AUC values are in hundredths (0.01 = 1), probabilities and      *)
(* scores in ten-thousandths (0.0001 = 1), times are whole ticks of a       *)
(* logical clock.                                                          *)
(***************************************************************************)
EXTENDS Integers, Sequences, FiniteSets, TLC

VARIABLES
    now,        \* the database / wall clock, in ticks (NOW(), time.Now())
    models,     \* ml_model_versions: the committed rows
    txw,        \* per process: the row versions its open transaction wrote
    stmtRows,   \* per process: the snapshot of a blocked UPDATE statement
    pc,         \* per process: its position
    call,       \* per process: the arguments of its ActivateModel call
    actResult,  \* per process: what its last ActivateModel call returned
    kidx,       \* per training cycle: the classifier it is at (1 or 2)
    ver,        \* per training cycle: the version NextVersion returned
    newAuc,     \* per training cycle: test AUC of the classifier just trained
    testCount,  \* per training cycle: size of the test partition
    results,    \* per training cycle: the ModelTrainResult list so far
    cycleErr,   \* per training cycle: the error TrainAll returns, or "none"
    cycles,     \* training cycles started so far
    \* predictions, signals, composites
    preds,      \* ml_predictions: the rows
    predSeq,    \* the BIGSERIAL sequence of ml_predictions.id
    signals,    \* the signal store: the rows
    composites, \* the composite snapshots: the rows
    inf,        \* the inference cycle (RunLatest): its position and locals
    infRuns,    \* inference cycles started so far
    mi,         \* the market-intel cycle (RunCycle): its position and locals
    rs,         \* per caller of the predictions repository: position and locals
    \* RateLimiter
    tokens,         \* RateLimiter.tokens
    maxTokens,      \* RateLimiter.maxTokens
    refillInterval, \* RateLimiter.refillInterval, in ticks
    lastRefill,     \* RateLimiter.lastRefill
    lpc,            \* per caller: its position in Wait
    wakeAt,         \* per caller: when its time.After fires
    ctxDone,        \* per caller: its context is cancelled
    waitRes,        \* per caller: what its last Wait returned
    grants,         \* per tick: the Wait calls that returned nil at that tick
    minted,         \* the tokens refill has added so far
    emptySince,     \* per caller: lastRefill when its Wait found no token, or NullTime
    \* PriceService and its cache
    clock,      \* wall clock of the price service, in seconds
    cache,      \* the Redis keys that hold a value, each with its expiry
    fetches,    \* FetchPrices calls made so far
    lastCall,   \* the last PriceService call: its inputs and what it returned
    \* PricePoller
    tiers,      \* per tier: position, coinIndex, units run, ticker channel
    refreshed,  \* per tier: the symbols its units refreshed, in order
    pollDone,   \* the poller's context is cancelled
    startPc,    \* PricePoller.Start: "blocked" on ctx.Done() or "returned"
    \* job runners
    jobs,       \* per runner: its service, position, cycles run, ticks taken
    jobCtx,     \* the runners' context is cancelled
    \* functions applied to drawn inputs
    fnArg,      \* the argument drawn for the function the specification follows
    fnRet,      \* what the function returned, or NoRet before the call
    \* marketintel.Service.RunCycle
    rc,         \* the cycle: its configuration, position, locals and result
    rcLog,      \* the calls the cycle made to its stores, in order
    \* CandleRepository
    candleRows, \* the candles table
    candleLast, \* per key: the values of the last candle upserted for it
    candleCall, \* the last UpsertCandles call: its batch and whether it failed
    \* market-intel items and the cycles that score them
    intelItems, \* the market_intel_items table
    scoring     \* per cycle runner: position, cycles run, the cycle's now and lists

regVars == <<models, txw, stmtRows, pc, call, actResult,
             kidx, ver, newAuc, testCount, results, cycleErr, cycles>>

predVars == <<preds, predSeq, signals, composites, inf, infRuns, mi, rs>>

limVars == <<tokens, maxTokens, refillInterval, lastRefill, lpc, wakeAt, ctxDone,
             waitRes, grants, minted, emptySince>>

priceVars == <<clock, cache, fetches, lastCall>>

pollVars == <<tiers, refreshed, pollDone, startPc>>

jobVars == <<jobs, jobCtx>>

\* the variables of the job runners and of the functions applied to drawn inputs
fnVars == <<fnArg, fnRet>>

rcVars == <<rc, rcLog>>

candleVars == <<candleRows, candleLast, candleCall>>

itemVars == <<intelItems, scoring>>

auxVars == <<jobVars, fnVars, rcVars, candleVars, itemVars>>

\* the variables the job runners leave alone
notJob == <<fnVars, rcVars, candleVars, itemVars>>
\* the variables the drawn-input functions leave alone
notFn == <<jobVars, rcVars, candleVars, itemVars>>
\* the variables RunCycle leaves alone
notRc == <<jobVars, fnVars, candleVars, itemVars>>
\* the variables the candle repository leaves alone
notCandle == <<jobVars, fnVars, rcVars, itemVars>>
\* the variables the item scoring leaves alone
notItem == <<jobVars, fnVars, rcVars, candleVars>>

\* the variables the registry and the training cycle leave alone
notReg == <<predVars, limVars, priceVars, pollVars, auxVars>>
\* the variables the rate limiter leaves alone
notLim == <<regVars, predVars, priceVars, pollVars, auxVars>>
\* the variables the price service and the poller leave alone
notPrice == <<now, regVars, predVars, limVars, auxVars>>
\* the variables the predictions and signals leave alone
notPred == <<models, txw, stmtRows, pc, call, actResult,
             kidx, ver, newAuc, testCount, results, cycleErr, cycles, limVars,
             priceVars, pollVars, auxVars>>

\* the variables the job runners and the drawn-input functions leave alone
coreVars == <<now, regVars, predVars, limVars, priceVars, pollVars>>

vars == <<coreVars, auxVars>>

-----------------------------------------------------------------------------
(* Bounds *)

MaxCycles == 2
MaxVersion == 2
MaxNow == 1
MaxTime == 4
MaxInferRuns == 1
\* inference cycles where a feature row is predicted again
MaxRecomputeRuns == 2
\* market-intel cycles of one runner
MaxScoreCycles == 1
MaxPredSeq == 4
MaxOpenTime == 0
MaxBatch == 2
MaxBurst == 2
MaxRefill == 2
MaxFetches == 2
MaxClock == 90
MaxPriceUnits == 2
MaxShortUnits == 6
MaxLongUnits == 11

-----------------------------------------------------------------------------
(* Program constants *)

\* newAUC >= activeAUC+0.01, in hundredths
PromoteMargin == 1
\* testCount < 300
MinPromoteTestCount == 300
\* activated_at TIMESTAMPTZ is nullable
NullTime == -1

ModelKeyLogReg == "logreg"
ModelKeyXGBoost == "xgboost"
\* TrainAll persists the logistic regression first, the boosted trees second
\* features.FeatureSpecVersion(): the tag of the build that runs; a table
\* filled by earlier builds holds the tags those builds had
FeatureSpecVersion == "v1"
FeatureSpecs == {"v0", FeatureSpecVersion}

\* const priceCacheTTL = 90 * time.Second
PriceCacheTTL == 90
\* the step of the price service's clock, in seconds
ClockStep == 45

TrainOrder == <<ModelKeyLogReg, ModelKeyXGBoost>>
Keys == {ModelKeyLogReg, ModelKeyXGBoost}

\* the scheduled MLTrainingJob and the manual POST /api/ml/train handler
Cyclers == {"job", "http"}
\* operators and tools calling the registry directly
Clients == {"op", "op2"}
Procs == Cyclers \cup Clients
\* the goroutines sharing one RateLimiter
Callers == {"c1", "c2"}

\* the outcome resolver job and a second instance of it
Resolvers == {"r1", "r2"}

ModelKeyEnsembleV1 == "ensemble_v1"
DirectionLong == "long"
DirectionShort == "short"
DirectionHold == "hold"
IndicatorMLLogRegUp4H == "ml_logreg_up4h"
IndicatorMLXGBoostUp4H == "ml_xgboost_up4h"
IndicatorMLEnsembleUp4H == "ml_ensemble_up4h"
IndicatorFundSentimentComposite == "fund_sentiment_composite"

\* signal_id BIGINT is nullable: no signal
NullId == 0
\* cfg.LongThreshold = 0.55, cfg.ShortThreshold = 0.45
LongThreshold == 5500
ShortThreshold == 4500
\* ensemble.Direction: score > 0.15, score < -0.15
EnsembleLong == 1500
EnsembleShort == -1500
\* market-intel cfg.LongThreshold = 0.20, cfg.ShortThreshold = -0.20
CompositeLong == 2000
CompositeShort == -2000
\* targetTime = OpenTime + cfg.TargetHours hours: one tick
TargetTicks == 1
One == 10000
Half == 5000

AUCs == {50, 51}
TestCounts == {299, 300}

-----------------------------------------------------------------------------
(* A text is the empty string, a JSON document (a set of <<key, number>>    *)
(* pairs) or a text that is not JSON                                       *)

EmptyText == [kind |-> "empty", doc |-> {}]
JSONText(doc) == [kind |-> "json", doc |-> doc]
\* a text json.Valid rejects
InvalidText == [kind |-> "invalid", doc |-> {}]

\* json.Marshal(metrics): computeMetrics always holds an "auc" entry
MarshalMetrics(auc) == JSONText({<<"auc", auc>>})

\* "" is stored as "{}"
fallbackJSON(v) == IF v.kind = "empty" THEN JSONText({}) ELSE v

\* json.Unmarshal into map[string]float64, then the lookup: <<value, ok>>
metricValue(metricsJSON, key) ==
    IF metricsJSON.kind # "json" THEN <<0, FALSE>>
    ELSE IF \E kv \in metricsJSON.doc : kv[1] = key
    THEN <<(CHOOSE kv \in metricsJSON.doc : kv[1] = key)[2], TRUE>>
    ELSE <<0, FALSE>>

-----------------------------------------------------------------------------
(* The registry: ml_model_versions under READ COMMITTED *)

RowId(r) == <<r.key, r.version>>

Locked(q) == {RowId(w) : w \in txw[q]}

LockedByOther(p, id) == \E q \in Procs \ {p} : id \in Locked(q)

\* what a statement of p's transaction sees: the committed rows, with p's own
\* writes in place of the rows it wrote
View(p) == {r \in models : RowId(r) \notin Locked(p)} \cup txw[p]

MaxOf(S) == CHOOSE x \in S : \A y \in S : y <= x

NextVersion(modelKey) ==
    MaxOf({r.version : r \in {m \in models : m.key = modelKey}} \cup {0}) + 1

\* WHERE model_key = $1 AND is_active = TRUE ORDER BY version DESC LIMIT 1:
\* the empty set, or the one row found
GetActiveModel(modelKey) ==
    LET act == {r \in models : r.key = modelKey /\ r.isActive}
    IN  IF act = {} THEN {}
        ELSE {CHOOSE r \in act : \A s \in act : s.version <= r.version}

\* idx_ml_model_versions_active_unique: the rows that forbid p to make
\* (modelKey, version) active
ActiveConflictsNoIndex(p, modelKey, version) == {}

ActiveConflicts(p, modelKey, version) ==
    {r \in View(p) : r.key = modelKey /\ r.isActive /\ r.version # version}

\* the index entry is held by a transaction still in flight: wait for it
ActiveIndexWait(p, modelKey, version) ==
    \/ \E r \in ActiveConflicts(p, modelKey, version) : LockedByOther(p, RowId(r))
    \/ \E q \in Procs \ {p} : \E w \in txw[q] :
          w.key = modelKey /\ w.isActive /\ w.version # version

ActiveIndexViolation(p, modelKey, version) ==
    \E r \in ActiveConflicts(p, modelKey, version) : ~LockedByOther(p, RowId(r))

\* UNIQUE (model_key, version)
VersionTaken(modelKey, version) ==
    \E r \in models : r.key = modelKey /\ r.version = version

\* InsertModelVersion: "invalid", "unique", "wait" or "ok"
InsertOutcome(p, modelKey, version, isActive) ==
    IF version <= 0 THEN "invalid"
    ELSE IF VersionTaken(modelKey, version) THEN "unique"
    ELSE IF isActive /\ ActiveIndexViolation(p, modelKey, version) THEN "unique"
    ELSE IF isActive /\ ActiveIndexWait(p, modelKey, version) THEN "wait"
    ELSE "ok"

NewRow(modelKey, version, metricsJSON, isActive, activatedAt) ==
    [key |-> modelKey, version |-> version, featureSpec |-> FeatureSpecVersion,
     metrics |-> fallbackJSON(metricsJSON),
     isActive |-> isActive, activatedAt |-> activatedAt]

\* UPDATE ... SET is_active = FALSE, activated_at = NULL WHERE model_key = $1
ClearedRows(p, ids) ==
    {[r EXCEPT !.isActive = FALSE, !.activatedAt = NullTime] :
        r \in {v \in View(p) : RowId(v) \in ids}}

\* tx.Commit: the transaction's row versions replace the committed ones
Committed(p) == {r \in models : RowId(r) \notin Locked(p)} \cup txw[p]

-----------------------------------------------------------------------------
(* Service.shouldPromote *)

shouldPromote(modelKey, newAUC, nTest, newVersion) ==
    LET found == GetActiveModel(modelKey)
    IN  IF found = {} THEN TRUE
        ELSE LET active == CHOOSE r \in found : TRUE
                 mv == metricValue(active.metrics, "auc")
             IN  IF active.version = newVersion THEN active.isActive
                 ELSE IF nTest < MinPromoteTestCount THEN FALSE
                 ELSE IF ~mv[2] THEN TRUE
                 ELSE newAUC >= mv[1] + PromoteMargin

-----------------------------------------------------------------------------
(* Predictions, signals and composite snapshots of one symbol and interval *)

OpenTimes == 0..MaxOpenTime
\* what the classifiers and the classic indicators give
Probs == {2000, 5000, 8000}
ClassicScores == {-5000, 5000}
\* composite score and confidence
CompositeInputs == {<<-2000, One>>, <<1999, One>>, <<2000, One>>, <<8000, One>>}
\* candle outcomes: actualUp, isCorrect, realizedReturn
Outcomes == {[actualUp |-> TRUE, isCorrect |-> TRUE, realizedReturn |-> 100],
             [actualUp |-> FALSE, isCorrect |-> FALSE, realizedReturn |-> -100]}

Abs(x) == IF x < 0 THEN -x ELSE x

Clamp01(v) == IF v < 0 THEN 0 ELSE IF v > One THEN One ELSE v

\* |2p - 1|
Confidence(probUp) == Abs(2 * probUp - One)

DirectionFromProb(probUp, long, short) ==
    IF probUp >= long THEN DirectionLong
    ELSE IF probUp <= short THEN DirectionShort
    ELSE DirectionHold

RiskFromConfidence(confidence) ==
    IF confidence >= 6000 THEN 2
    ELSE IF confidence >= 4000 THEN 3
    ELSE IF confidence >= 2000 THEN 4
    ELSE 5

\* ensemble.Service.Score
Score(classicScore, logRegProb, xgbProb) ==
    (30 * classicScore + 35 * (2 * logRegProb - One) + 35 * (2 * xgbProb - One)) \div 100

\* ensemble.Direction with the thresholds included
DirectionInclusive(score) ==
    IF score >= EnsembleLong THEN DirectionLong
    ELSE IF score <= EnsembleShort THEN DirectionShort
    ELSE DirectionHold

\* ensemble.Direction
Direction(score) ==
    IF score > EnsembleLong THEN DirectionLong
    ELSE IF score < EnsembleShort THEN DirectionShort
    ELSE DirectionHold

indicatorForModelKey(modelKey) ==
    IF modelKey = ModelKeyLogReg THEN IndicatorMLLogRegUp4H
    ELSE IF modelKey = ModelKeyXGBoost THEN IndicatorMLXGBoostUp4H
    ELSE IndicatorMLEnsembleUp4H

buildDetailsJSON(modelKey, version, probUp, confidence, ensembleScore) ==
    JSONText({<<"model_version", version>>, <<"prob_up", probUp>>,
              <<"confidence", confidence>>} \cup
             (IF modelKey = ModelKeyEnsembleV1
              THEN {<<"ensemble_score", ensembleScore>>} ELSE {}))

\* the domain.MLPrediction persistModelPrediction hands to UpsertPrediction
Prediction(openTime, modelKey, modelVersion, probUp, targetTime, ensembleScore) ==
    LET confidence == Confidence(probUp)
    IN  [openTime |-> openTime, targetTime |-> targetTime,
         modelKey |-> modelKey, modelVersion |-> modelVersion,
         probUp |-> probUp, confidence |-> confidence,
         direction |-> IF modelKey = ModelKeyEnsembleV1
                       THEN Direction(ensembleScore)
                       ELSE DirectionFromProb(probUp, LongThreshold, ShortThreshold),
         risk |-> RiskFromConfidence(confidence),
         signalId |-> NullId,
         details |-> buildDetailsJSON(modelKey, modelVersion, probUp, confidence,
                                      ensembleScore)]

\* UNIQUE (symbol, interval, open_time, model_key, model_version)
PredKey(r) == <<r.openTime, r.modelKey, r.modelVersion>>

\* "" becomes "{}", a text that is not JSON becomes {"raw":"invalid"}
NormalizeDetails(details) ==
    IF details.kind = "empty" THEN JSONText({})
    ELSE IF details.kind = "invalid" THEN JSONText({<<"raw", 0>>})
    ELSE details

InsertedRow(prediction, id, t) ==
    [id |-> id, openTime |-> prediction.openTime, targetTime |-> prediction.targetTime,
     modelKey |-> prediction.modelKey, modelVersion |-> prediction.modelVersion,
     probUp |-> prediction.probUp, confidence |-> prediction.confidence,
     direction |-> prediction.direction, risk |-> prediction.risk,
     signalId |-> prediction.signalId, details |-> NormalizeDetails(prediction.details),
     createdAt |-> t, resolvedAt |-> NullTime,
     actualUp |-> {}, isCorrect |-> {}, realizedReturn |-> {}]

\* the upsert, were the conflicting row replaced by the row to insert
UpsertedRowReplace(rows, prediction, id, t) == InsertedRow(prediction, id, t)

\* INSERT ... ON CONFLICT ... DO UPDATE SET ... RETURNING: the row returned;
\* id is the sequence's next value, used when the row is new
UpsertedRow(rows, prediction, id, t) ==
    IF \E r \in rows : PredKey(r) = PredKey(prediction)
    THEN [(CHOOSE r \in rows : PredKey(r) = PredKey(prediction)) EXCEPT
            !.probUp = prediction.probUp,
            !.confidence = prediction.confidence,
            !.direction = prediction.direction,
            !.risk = prediction.risk,
            !.details = NormalizeDetails(prediction.details),
            !.targetTime = prediction.targetTime]
    ELSE InsertedRow(prediction, id, t)

\* UpsertPrediction, were the statement not run
UpsertPredictionDeferred(rows, prediction, id, t) == rows

\* the table after UpsertPrediction
UpsertPrediction(rows, prediction, id, t) ==
    {r \in rows : PredKey(r) # PredKey(prediction)} \cup
    {UpsertedRow(rows, prediction, id, t)}

\* AttachSignalID: UPDATE ml_predictions SET signal_id = $2 WHERE id = $1
AttachSignalID(rows, predictionID, signalID) ==
    {IF r.id = predictionID THEN [r EXCEPT !.signalId = signalID] ELSE r : r \in rows}

\* the UPDATE of ResolvePrediction without AND resolved_at IS NULL
ResolveTargetsUnguarded(rows, predictionID) == {r \in rows : r.id = predictionID}

\* WHERE id = $1 AND resolved_at IS NULL
ResolveTargets(rows, predictionID) ==
    {r \in rows : r.id = predictionID /\ r.resolvedAt = NullTime}

\* the table after ResolvePrediction
ResolvePrediction(rows, predictionID, o, t) ==
    LET targets == ResolveTargets(rows, predictionID)
    IN  (rows \ targets) \cup
        {[r EXCEPT !.resolvedAt = t, !.actualUp = {o.actualUp},
                   !.isCorrect = {o.isCorrect},
                   !.realizedReturn = {o.realizedReturn}] : r \in targets}

\* RowsAffected() == 0 is pgx.ErrNoRows
ResolveResult(rows, predictionID) ==
    IF ResolveTargets(rows, predictionID) = {} THEN "ErrNoRows" ELSE "ok"

Min(a, b) == IF a < b THEN a ELSE b

\* ListUnresolvedDue: WHERE resolved_at IS NULL AND target_time <= $1
\* ORDER BY target_time ASC LIMIT $2; rows of equal target_time come in any
\* order.  The lists of ids it can return.
ListUnresolvedDue(rows, cutoff, limit) ==
    LET due == {r \in rows : r.resolvedAt = NullTime /\ r.targetTime <= cutoff}
        n == Cardinality(due)
        sorted == {f \in [1..n -> due] :
                      /\ \A i, j \in 1..n : i # j => f[i] # f[j]
                      /\ \A i, j \in 1..n : i < j => f[i].targetTime <= f[j].targetTime}
    IN  {[i \in 1..Min(n, limit) |-> f[i].id] : f \in sorted}

\* the signal store, unique by (indicator, timestamp, direction)
\* the key of the signals table, were the risk part of it
SignalKeyWithRisk(g) == <<g.indicator, g.timestamp, g.direction, g.risk>>

\* signals: UNIQUE (symbol, interval, indicator, timestamp, direction), for
\* one symbol and interval
SignalKey(g) == <<g.indicator, g.timestamp, g.direction>>

Signal(indicator, timestamp, risk, direction) ==
    [indicator |-> indicator, timestamp |-> timestamp, risk |-> risk,
     direction |-> direction]

\* InsertSignals of one signal: the stored row it returns
InsertedSignal(rows, g) ==
    IF \E r \in rows : SignalKey(r) = SignalKey(g)
    THEN CHOOSE r \in rows : SignalKey(r) = SignalKey(g)
    ELSE [id |-> Cardinality(rows) + 1, indicator |-> g.indicator,
          timestamp |-> g.timestamp, risk |-> g.risk, direction |-> g.direction]

InsertSignals(rows, g) == rows \cup {InsertedSignal(rows, g)}

\* persistModelPrediction, were every prediction made a signal
SignalWantedAlways(direction) == TRUE

\* persistModelPrediction: if direction == domain.DirectionHold, return
SignalWanted(direction) == direction # DirectionHold

\* RunCycle: if computed.Direction == domain.DirectionHold, continue
CompositeSignalWanted(direction) == direction # DirectionHold

\* BuildComposite: direction and risk from the composite score and confidence
CompositeDirection(score) ==
    IF score >= CompositeLong THEN DirectionLong
    ELSE IF score <= CompositeShort THEN DirectionShort
    ELSE DirectionHold

CompositeRisk(score, confidence) ==
    LET conviction == (Abs(score) * confidence) \div One
    IN  IF conviction >= 7000 THEN 2
        ELSE IF conviction >= 5000 THEN 3
        ELSE IF conviction >= 3000 THEN 4
        ELSE 5

InfIdle(err) ==
    [pc |-> "idle", queue |-> <<>>, openTime |-> 0, logProb |-> Half, xgbProb |-> Half,
     classicScore |-> 0, logVersion |-> 0, xgbVersion |-> 0, predId |-> NullId,
     signalId |-> NullId, direction |-> DirectionHold, risk |-> 5, err |-> err]

MiIdle == [pc |-> "idle", bucket |-> 0, direction |-> DirectionHold, risk |-> 5,
           signalId |-> NullId]

PredInit ==
    /\ preds = {}
    /\ predSeq = 0
    /\ signals = {}
    /\ composites = {}
    /\ inf = InfIdle("none")
    /\ infRuns = 0
    /\ mi = MiIdle
    /\ rs = [c \in Resolvers |-> [pc |-> "idle", todo |-> <<>>, wrote |-> {}, missed |-> {}]]

-----------------------------------------------------------------------------
(* PriceService: prices through the Redis cache and the provider *)

\* domain.SupportedSymbols; the keys of domain.CoinGeckoID are the same symbols
SupportedSymbols ==
    <<"BTC", "ETH", "SOL", "XRP", "ADA", "DOGE", "DOT", "AVAX", "LINK", "MATIC">>

CoinGeckoID == {SupportedSymbols[i] : i \in 1..Len(SupportedSymbols)}

\* the symbols callers ask for
Requested == {"BTC", "ETH", "FAKE"}

\* the symbols a FetchPrices answer may hold prices for
ProviderSets == {CoinGeckoID, CoinGeckoID \ {"BTC"}, {"BTC"}}

\* the symbols whose Redis command fails during one call
CacheFailures == {{}, {"BTC"}, CoinGeckoID}

PriceSnapshot(symbol, priceUSD, lastUpdatedUnix) ==
    [symbol |-> symbol, priceUSD |-> priceUSD, lastUpdatedUnix |-> lastUpdatedUnix]

\* json.Marshal of a PriceSnapshot: the members by their json tags
MarshalSnapshot(snapshot) ==
    {<<"symbol", snapshot.symbol>>, <<"price_usd", snapshot.priceUSD>>,
     <<"last_updated_unix", snapshot.lastUpdatedUnix>>}

JSONMember(data, tag) == (CHOOSE m \in data : m[1] = tag)[2]

\* json.Unmarshal into a PriceSnapshot
UnmarshalSnapshot(data) ==
    PriceSnapshot(JSONMember(data, "symbol"), JSONMember(data, "price_usd"),
                  JSONMember(data, "last_updated_unix"))

\* "price:" + symbol
CacheKey(symbol) == <<"price:", symbol>>

\* getPriceCache, were a failed read answered with a zero snapshot
getPriceCacheZero(rows, symbol, readFail, t) ==
    IF symbol \in readFail
    THEN [snap |-> {PriceSnapshot(symbol, 0, 0)}, err |-> "redis"]
    ELSE [snap |-> {UnmarshalSnapshot(e.data) :
                       e \in {x \in rows : x.key = CacheKey(symbol) /\ x.exp > t}},
          err |-> "none"]

\* getPriceCache: the snapshot under the key (none when the key is absent or
\* expired: redis.Nil), or the error of the read
getPriceCache(rows, symbol, readFail, t) ==
    IF symbol \in readFail
    THEN [snap |-> {}, err |-> "redis"]
    ELSE [snap |-> {UnmarshalSnapshot(e.data) :
                       e \in {x \in rows : x.key = CacheKey(symbol) /\ x.exp > t}},
          err |-> "none"]

\* setPriceCache: the key after SET with the TTL, unless the write fails
setPriceCache(rows, snapshot, writeFail, t) ==
    IF snapshot.symbol \in writeFail
    THEN rows
    ELSE {x \in rows : x.key # CacheKey(snapshot.symbol)} \cup
         {[key |-> CacheKey(snapshot.symbol), data |-> MarshalSnapshot(snapshot),
           exp |-> t + PriceCacheTTL]}

\* the loop over the provider's answer, were nothing written to the cache
CacheAllNone(rows, prices, writeFail, t) == rows

\* for _, snap := range prices { setPriceCache(snap) }: the keys differ, so
\* the order of the map does not matter
CacheAll(rows, prices, writeFail, t) ==
    {x \in rows : \A snap \in prices : x \in setPriceCache({x}, snap, writeFail, t)} \cup
    UNION {setPriceCache({}, snap, writeFail, t) : snap \in prices}

\* the SET commands of that loop
SetCommands(prices) ==
    {[key |-> CacheKey(snap.symbol), ttl |-> PriceCacheTTL] : snap \in prices}

\* what a call returns and does: snaps are the snapshots returned, each with
\* where it came from
PriceOut(snaps, err, fetched, rows, gets, sets) ==
    [snaps |-> snaps, err |-> err, fetched |-> fetched, cache |-> rows,
     gets |-> gets, sets |-> sets]

\* GetCurrentPrice(symbol); fetch is what FetchPrices answers
GetCurrentPrice(rows, symbol, readFail, fetch, writeFail, t) ==
    LET cached == getPriceCache(rows, symbol, readFail, t)
        found == {snap \in fetch.prices : snap.symbol = symbol}
    IN  IF symbol \notin CoinGeckoID
        THEN PriceOut({}, "unsupported", 0, rows, {}, {})
        ELSE IF cached.snap # {}
        THEN PriceOut({<<"cache", snap>> : snap \in cached.snap}, "none", 0, rows,
                      {CacheKey(symbol)}, {})
        ELSE IF fetch.err
        THEN PriceOut({}, "provider", 1, rows, {CacheKey(symbol)}, {})
        ELSE PriceOut({<<"provider", snap>> : snap \in found},
                      IF found = {} THEN "unavailable" ELSE "none", 1,
                      CacheAll(rows, fetch.prices, writeFail, t),
                      {CacheKey(symbol)}, SetCommands(fetch.prices))

\* GetCurrentPrices()
GetCurrentPrices(rows, readFail, fetch, writeFail, t) ==
    LET hits == UNION {getPriceCache(rows, symbol, readFail, t).snap : symbol \in CoinGeckoID}
        snapshots == {<<"cache", snap>> : snap \in hits}
        missing == {symbol \in CoinGeckoID :
                       getPriceCache(rows, symbol, readFail, t).snap = {}}
        gets == {CacheKey(symbol) : symbol \in CoinGeckoID}
    IN  IF missing = {}
        THEN PriceOut(snapshots, "none", 0, rows, gets, {})
        ELSE IF fetch.err
        THEN PriceOut(snapshots, "provider", 1, rows, gets, {})
        ELSE PriceOut(snapshots \cup {<<"provider", snap>> : snap \in fetch.prices},
                      "none", 1, CacheAll(rows, fetch.prices, writeFail, t),
                      gets, SetCommands(fetch.prices))

\* RefreshPrices()
RefreshPrices(rows, fetch, writeFail, t) ==
    IF fetch.err
    THEN PriceOut({}, "provider", 1, rows, {}, {})
    ELSE PriceOut({}, "none", 1, CacheAll(rows, fetch.prices, writeFail, t), {},
                  SetCommands(fetch.prices))

\* an answer of FetchPrices: an error, or a snapshot for each symbol of syms,
\* priced by the number of the fetch
FetchPrices(failed, syms) ==
    [err |-> failed,
     prices |-> IF failed THEN {}
                ELSE {PriceSnapshot(symbol, fetches + 1, clock) : symbol \in syms}]

\* the answers FetchPrices may give now
FetchAnswers == {FetchPrices(TRUE, {})} \cup {FetchPrices(FALSE, syms) : syms \in ProviderSets}

\* no FetchPrices call
NoFetch == [err |-> FALSE, prices |-> {}]

NoCall == [op |-> "none"]

\* the record of a call: of its inputs, those it came to use
PriceCall(op, symbol, readFail, fetch, writeFail, out) ==
    [op |-> op, symbol |-> symbol,
     readFail |-> IF out.gets = {} THEN {} ELSE readFail,
     fetch |-> IF out.fetched = 0 THEN NoFetch ELSE fetch,
     writeFail |-> IF out.sets = {} THEN {} ELSE writeFail,
     before |-> cache, at |-> clock, out |-> out]

PriceInit ==
    /\ clock = 0
    /\ cache = {}
    /\ fetches = 0
    /\ lastCall = NoCall

\* a PriceService call returns
PriceReturn(op, symbol, readFail, fetch, writeFail, out) ==
    /\ fetches + out.fetched <= MaxFetches
    /\ cache' = out.cache
    /\ fetches' = fetches + out.fetched
    /\ lastCall' = PriceCall(op, symbol, readFail, fetch, writeFail, out)
    /\ UNCHANGED <<clock, pollVars, notPrice>>

PriceGet ==
    \E symbol \in Requested, readFail \in CacheFailures, writeFail \in CacheFailures,
       fetch \in FetchAnswers :
        PriceReturn("GetCurrentPrice", symbol, readFail, fetch, writeFail,
                    GetCurrentPrice(cache, symbol, readFail, fetch, writeFail, clock))

PriceGetAll ==
    \E readFail \in CacheFailures, writeFail \in CacheFailures, fetch \in FetchAnswers :
        PriceReturn("GetCurrentPrices", "", readFail, fetch, writeFail,
                    GetCurrentPrices(cache, readFail, fetch, writeFail, clock))

PriceRefresh ==
    \E writeFail \in CacheFailures, fetch \in FetchAnswers :
        PriceReturn("RefreshPrices", "", {}, fetch, writeFail,
                    RefreshPrices(cache, fetch, writeFail, clock))

\* time passes; keys past their expiry are gone
PriceTick ==
    /\ clock < MaxClock
    /\ clock' = clock + ClockStep
    /\ cache' = {x \in cache : x.exp > clock + ClockStep}
    /\ UNCHANGED <<fetches, lastCall, pollVars, notPrice>>

-----------------------------------------------------------------------------
(* PricePoller: three tiers, each a goroutine with its own ticker *)

\* current prices, short candles, long candles
Tiers == {"T1", "T2", "T3"}

\* symbols refreshed by one unit of work: coinsPerTick of pollShortCandles,
\* the one symbol of fetchLongBatch; RefreshPrices takes no symbol
CoinsPerUnit(t) == IF t = "T2" THEN 2 ELSE IF t = "T3" THEN 1 ELSE 0

\* the units of work a tier is followed for
MaxUnits(t) == IF t = "T2" THEN MaxShortUnits ELSE IF t = "T3" THEN MaxLongUnits
               ELSE MaxPriceUnits

\* *coinIndex++, were it done only when the refresh succeeds
AdvanceOnSuccess(coinIndex, err) == IF err THEN coinIndex ELSE coinIndex + 1

\* *coinIndex++: before the refresh, whatever it returns
Advance(coinIndex, err) == coinIndex + 1

RECURSIVE fetchBatch(_, _, _)
\* fetchShortBatch / fetchLongBatch: count symbols from coinIndex on; errs are
\* the outcomes of the refreshes
fetchBatch(coinIndex, count, errs) ==
    IF count = 0
    THEN [coinIndex |-> coinIndex, symbols |-> <<>>]
    ELSE LET symbol == SupportedSymbols[(coinIndex % Len(SupportedSymbols)) + 1]
             rest == fetchBatch(Advance(coinIndex, Head(errs)), count - 1, Tail(errs))
         IN  [coinIndex |-> rest.coinIndex, symbols |-> <<symbol>> \o rest.symbols]

\* the loop after a unit, were an error to end the goroutine
AfterUnitFatal(err) == IF err THEN "stopped" ELSE "wait"

\* the error of a unit is logged; the loop goes to its select
AfterUnit(err) == "wait"

\* the outcomes of the refreshes of one unit
UnitErrs(t) == IF t = "T2" THEN [1..2 -> BOOLEAN] ELSE [1..1 -> BOOLEAN]

PollInit ==
    /\ tiers = [t \in Tiers |->
                  [pc |-> IF t = "T1" THEN "start" ELSE "delay", coinIndex |-> 0,
                   units |-> 0, pending |-> FALSE, erred |-> FALSE]]
    /\ refreshed = [t \in Tiers |-> <<>>]
    /\ pollDone = FALSE
    /\ startPc = "blocked"

\* one unit of work of tier t, then the loop
PollUnit(t, errs) ==
    LET batch == fetchBatch(tiers[t].coinIndex, CoinsPerUnit(t), errs)
        err == \E i \in DOMAIN errs : errs[i]
    IN  /\ tiers[t].units < MaxUnits(t)
        /\ tiers' = [tiers EXCEPT ![t].pc = AfterUnit(err),
                                  ![t].coinIndex = batch.coinIndex,
                                  ![t].units = @ + 1,
                                  ![t].pending = FALSE,
                                  ![t].erred = @ \/ err]
        /\ refreshed' = [refreshed EXCEPT ![t] = @ \o batch.symbols]
        /\ UNCHANGED <<pollDone, startPc, priceVars, notPrice>>

\* pollShortCandles, pollLongCandles: the startup delay is over; the select
\* takes the event that comes first, so a timer firing after the cancellation
\* finds the select already resolved to ctx.Done()
PollDelayOver(t) ==
    /\ tiers[t].pc = "delay"
    /\ ~pollDone
    /\ tiers' = [tiers EXCEPT ![t].pc = "start"]
    /\ UNCHANGED <<refreshed, pollDone, startPc, priceVars, notPrice>>

\* the unit run at once, before the ticker is made
PollFirst(t) ==
    /\ tiers[t].pc = "start"
    /\ \E errs \in UnitErrs(t) : PollUnit(t, errs)

\* the ticker sends; its channel holds one tick, a further one is dropped.
\* A tick pending at the cancellation leaves both cases of the select ready;
\* a tick after it finds the select resolved to ctx.Done()
TickerFire(t) ==
    /\ tiers[t].pc = "wait"
    /\ ~tiers[t].pending
    /\ ~pollDone
    /\ tiers' = [tiers EXCEPT ![t].pending = TRUE]
    /\ UNCHANGED <<refreshed, pollDone, startPc, priceVars, notPrice>>

\* select: case <-ticker.C
PollNext(t) ==
    /\ tiers[t].pc = "wait"
    /\ tiers[t].pending
    /\ \E errs \in UnitErrs(t) : PollUnit(t, errs)

\* select: the ctx.Done() case is not taken
PollStopIgnored(t) ==
    /\ tiers[t].pc \in {"delay", "wait"}
    /\ pollDone
    /\ UNCHANGED vars

\* select: case <-ctx.Done(): return
PollStop(t) ==
    /\ tiers[t].pc \in {"delay", "wait"}
    /\ pollDone
    /\ tiers' = [tiers EXCEPT ![t].pc = "stopped"]
    /\ UNCHANGED <<refreshed, pollDone, startPc, priceVars, notPrice>>

\* Start: <-ctx.Done() and return
StartReturn ==
    /\ startPc = "blocked"
    /\ pollDone
    /\ startPc' = "returned"
    /\ UNCHANGED <<tiers, refreshed, pollDone, priceVars, notPrice>>

\* the context of Start is cancelled
PollCancel ==
    /\ ~pollDone
    /\ pollDone' = TRUE
    /\ UNCHANGED <<tiers, refreshed, startPc, priceVars, notPrice>>

-----------------------------------------------------------------------------
(* The ticker-driven job runners: MLFeatureInferenceJob, MLOutcomeResolverJob
   and MarketIntelJob. A runner built without a service is disabled. *)

MaxJobCycles == 3

Jobs == {"inference", "resolver", "marketintel"}

\* what one runOnce meets: the feature/inference cycle makes two calls
CycleOutcomes(j) ==
    IF j = "inference" THEN {"ok", "refresh_error", "inference_error"}
    ELSE {"ok", "error"}

JobInitWith(svc) ==
    /\ jobs = [j \in Jobs |->
                 [service |-> svc[j], pc |-> "start", cycles |-> 0, ticks |-> 0,
                  pending |-> FALSE, last |-> "none"]]
    /\ jobCtx = FALSE

\* runOnce returns on the error of a cycle and Start exits with it
AfterCycleFatal(outcome) == IF outcome = "ok" THEN "wait" ELSE "returned"

\* runOnce logs the error of a cycle and returns to the loop
AfterCycle(outcome) == "wait"

\* runOnce, called at the start (tick = 0) or for a tick taken (tick = 1)
runOnce(j, outcome, tick) ==
    /\ jobs[j].cycles < MaxJobCycles
    /\ jobs' = [jobs EXCEPT ![j].pc = AfterCycle(outcome),
                            ![j].cycles = @ + 1,
                            ![j].ticks = @ + tick,
                            ![j].pending = FALSE,
                            ![j].last = outcome]

\* Start of a runner without a service: logs and blocks on ctx.Done()
JobDisabled(j) ==
    /\ jobs[j].pc = "start"
    /\ ~jobs[j].service
    /\ jobs' = [jobs EXCEPT ![j].pc = "disabled"]
    /\ UNCHANGED <<jobCtx, notJob, coreVars>>

\* Start: the cycle run before the ticker is made
JobFirst(j) ==
    /\ jobs[j].pc = "start"
    /\ jobs[j].service
    /\ \E outcome \in CycleOutcomes(j) : runOnce(j, outcome, 0)
    /\ UNCHANGED <<jobCtx, notJob, coreVars>>

\* the ticker sends; its channel holds one tick
JobTicker(j) ==
    /\ jobs[j].pc = "wait"
    /\ ~jobs[j].pending
    /\ ~jobCtx
    /\ jobs' = [jobs EXCEPT ![j].pending = TRUE]
    /\ UNCHANGED <<jobCtx, notJob, coreVars>>

\* select: case <-ticker.C
JobNext(j) ==
    /\ jobs[j].pc = "wait"
    /\ jobs[j].pending
    /\ \E outcome \in CycleOutcomes(j) : runOnce(j, outcome, 1)
    /\ UNCHANGED <<jobCtx, notJob, coreVars>>

\* select: case <-ctx.Done(): return
JobStop(j) ==
    /\ jobs[j].pc \in {"wait", "disabled"}
    /\ jobCtx
    /\ jobs' = [jobs EXCEPT ![j].pc = "returned"]
    /\ UNCHANGED <<jobCtx, notJob, coreVars>>

\* the context of the runners is cancelled
JobCancel ==
    /\ ~jobCtx
    /\ jobCtx' = TRUE
    /\ UNCHANGED <<jobs, notJob, coreVars>>

-----------------------------------------------------------------------------
(* Functions followed on drawn inputs: fnArg holds the argument, fnRet the
   returned value once the call is made. *)

NoRet == [fn |-> "none"]

FnIdle == fnArg = NoRet /\ fnRet = NoRet

\* the call of a function f on the drawn argument
Apply(name, f(_)) ==
    /\ fnRet = NoRet
    /\ fnArg # NoRet
    /\ fnRet' = [fn |-> name, val |-> f(fnArg)]
    /\ UNCHANGED <<fnArg, notFn, coreVars>>

-----------------------------------------------------------------------------
(* BuildComposite. Scores and confidences are in ten-thousandths, base
   weights in hundredths; a normalized weight is the fraction <<base weight,
   sum of the available base weights>>. *)

BaseWeights == [fear_greed |-> 20, news |-> 35, reddit |-> 25, onchain |-> 20]

ComponentNames == DOMAIN BaseWeights

clamp(v, lo, hi) == IF v < lo THEN lo ELSE IF v > hi THEN hi ELSE v

RECURSIVE SumOf(_, _)
SumOf(S, f) ==
    IF S = {} THEN 0
    ELSE LET x == CHOOSE y \in S : TRUE IN f[x] + SumOf(S \ {x}, f)

Available(components) == {n \in ComponentNames : components[n].available}

\* the weights are left as the base weights, not divided by their sum
normalizedBase(components) ==
    [n \in Available(components) |-> <<BaseWeights[n], 100>>]

\* normalized[name] = weights[name] / activeWeight
normalized(components) ==
    [n \in Available(components) |->
        <<BaseWeights[n], SumOf(Available(components), BaseWeights)>>]

BuildComposite(components) ==
    LET activeWeight == SumOf(Available(components), BaseWeights)
        w == normalized(components)
        names == DOMAIN w
        score == clamp(SumOf(names, [n \in names |->
                          w[n][1] * clamp(components[n].score, -One, One)])
                       \div activeWeight, -One, One)
        confidence == clamp(SumOf(names, [n \in names |->
                          w[n][1] * clamp(components[n].confidence, 0, One)])
                       \div activeWeight, 0, One)
    IN  IF activeWeight <= 0
        THEN [score |-> 0, confidence |-> 0, direction |-> DirectionHold,
              risk |-> 5, weights |-> <<>>]
        ELSE [score |-> score, confidence |-> confidence,
              direction |-> CompositeDirection(score),
              risk |-> CompositeRisk(score, confidence),
              weights |-> w]

\* CompositeComponent values: not available, or a score and a confidence
\* (some beyond the range that clamp cuts to)
Components ==
    {[score |-> 0, confidence |-> 0, available |-> FALSE]} \cup
    {[score |-> sc, confidence |-> cf, available |-> TRUE] :
        sc \in {-12000, -3000, 2000, 9000}, cf \in {5000, 12000}}

ComponentInputs == [ComponentNames -> Components]

ApplyBuildComposite == Apply("BuildComposite", BuildComposite)

-----------------------------------------------------------------------------
(* marketintel.Service.RunCycle, one call. Time is in half hours. The cycle
   goes over the configured intervals and the first MaxCycleSymbols of the
   supported symbols. *)

MaxCycleSymbols == 2
MaxUnscored == 1
\* the failures one cycle is made to meet
MaxFaults == 1

HourUnits == 2

RcSymbols == SubSeq(SupportedSymbols, 1, MaxCycleSymbols)

\* Config.Intervals, the default being both
IntervalConfigs == {<<"1h">>, <<"4h">>, <<"1h", "4h">>}

\* the times of the calls: on a bucket boundary, inside a bucket
RcNows == {16, 19}

Sources == {"fear_greed", "rss", "reddit"}

\* the bucket that is still open at t
closedBucketCurrent(t, interval) ==
    LET d == IF interval = "4h" THEN 4 * HourUnits ELSE HourUnits
    IN  t - (t % d)

closedBucket(t, interval) ==
    LET d == IF interval = "4h" THEN 4 * HourUnits ELSE HourUnits
    IN  (t - (t % d)) - d

\* what GetSentimentAverages finds for a symbol: nothing, bullish or bearish
\* news and reddit averages
StatsChoices ==
    {[fear_greed |-> [score |-> 0, confidence |-> 0, available |-> FALSE],
      news |-> [score |-> sc, confidence |-> 8000, available |-> av],
      reddit |-> [score |-> sc, confidence |-> 7000, available |-> av]] :
        sc \in {-9000, 9000}, av \in BOOLEAN}

OnChainOutcomes == {"fetch_error", "nil", "store_error", "stored"}

\* scoring is done before the symbols of the items are recorded
PhaseOrderScoreFirst ==
    <<"upsertItems", "list", "score", "itemSymbols", "onchain", "composites",
      "retention", "done">>

\* the order of the statements of RunCycle after the fetches
PhaseOrder ==
    <<"upsertItems", "itemSymbols", "list", "score", "onchain", "composites",
      "retention", "done">>

NextPhase(p) ==
    LET i == CHOOSE k \in 1..Len(PhaseOrder) : PhaseOrder[k] = p
    IN  PhaseOrder[i + 1]

\* MarketIntelRunResult: the counters of composites and signals; those of
\* items and on-chain snapshots are not followed
RcResultZero == [compositesWritten |-> 0, signalsWritten |-> 0]

RcInitWith(repoNil, signalStore, intervals, enableOnChain, t) ==
    /\ rc = [pc |-> "start", repoNil |-> repoNil, signalStore |-> signalStore,
             intervals |-> intervals, enableOnChain |-> enableOnChain, now |-> t,
             items |-> 0, ii |-> 1, si |-> 1, onchain |-> {},
             direction |-> DirectionHold, err |-> "none", errors |-> 0,
             storeErr |-> FALSE, res |-> RcResultZero]
    /\ rcLog = <<>>

RcIdle == RcInitWith(FALSE, TRUE, <<"1h", "4h">>, FALSE, 16)

\* a call to a store, as the log keeps it
Call(op, interval, symbol, bucket, direction, indicator) ==
    [op |-> op, interval |-> interval, symbol |-> symbol, bucket |-> bucket,
     direction |-> direction, indicator |-> indicator]

PlainCall(op) == Call(op, "", "", 0, "", "")

\* n calls of one kind
Repeat(n, e) == [i \in 1..n |-> e]

Count(S) == Cardinality(S)

\* an error appended to result.Errors, by a store or by something else
Warn(r, n, byStore) ==
    [r EXCEPT !.errors = @ + n, !.storeErr = @ \/ (byStore /\ n > 0)]

\* the failures that may still be met
FaultsLeft(r) == MaxFaults - r.errors

\* the outcomes of one call: success, or failure while failures are left
Oks(r) == IF FaultsLeft(r) > 0 THEN BOOLEAN ELSE {TRUE}

\* the loop over intervals and symbols goes to its next pair, or ends
NextPair(r) ==
    IF r.si < Len(RcSymbols) THEN [r EXCEPT !.si = @ + 1]
    ELSE IF r.ii < Len(r.intervals) THEN [r EXCEPT !.ii = @ + 1, !.si = 1]
    ELSE [r EXCEPT !.pc = NextPhase("composites")]

\* RunCycle: the dependency check, then the three fetches
RcFetch ==
    /\ rc.pc = "start"
    /\ IF rc.repoNil
       THEN rc' = [rc EXCEPT !.pc = "done", !.err = "dependencies"]
       ELSE \E got \in [Sources -> {"none", "error", "item"}] :
               /\ Count({x \in Sources : got[x] = "error"}) <= FaultsLeft(rc)
               /\ rc' = [rc EXCEPT !.pc = PhaseOrder[1],
                                  !.items = Count({x \in Sources : got[x] = "item"}),
                                  !.errors = Count({x \in Sources : got[x] = "error"})]
    /\ UNCHANGED <<rcLog, notRc, coreVars>>

\* UpsertItems: its error ends the cycle
RcUpsertItems ==
    /\ rc.pc = "upsertItems"
    /\ rcLog' = Append(rcLog, PlainCall("UpsertItems"))
    /\ \E dbok \in Oks(rc) :
          rc' = IF dbok
                THEN [rc EXCEPT !.pc = NextPhase("upsertItems")]
                ELSE [rc EXCEPT !.pc = "done", !.err = "store", !.storeErr = TRUE]
    /\ UNCHANGED <<notRc, coreVars>>

\* UpsertItemSymbols for each persisted item; failed is how many fail
RcItemSymbols ==
    /\ rc.pc = "itemSymbols"
    /\ rcLog' = rcLog \o Repeat(rc.items, PlainCall("UpsertItemSymbols"))
    /\ \E failed \in 0..Min(rc.items, FaultsLeft(rc)) :
          rc' = [Warn(rc, failed, TRUE) EXCEPT !.pc = NextPhase("itemSymbols"),
                                              !.items = 0]
    /\ UNCHANGED <<notRc, coreVars>>

\* ListUnscoredItems: its error ends the cycle
RcList ==
    /\ rc.pc = "list"
    /\ \E dbok \in Oks(rc) :
          rc' = IF dbok
                THEN [rc EXCEPT !.pc = NextPhase("list")]
                ELSE [rc EXCEPT !.pc = "done", !.err = "store", !.storeErr = TRUE]
    /\ UNCHANGED <<rcLog, notRc, coreVars>>

\* Score, then UpdateItemSentiment for each scored row
RcScore ==
    /\ rc.pc = "score"
    /\ \E scored \in 0..MaxUnscored, scoreErr \in BOOLEAN :
       \E failed \in 0..scored :
          /\ failed + (IF scoreErr THEN 1 ELSE 0) <= FaultsLeft(rc)
          /\ rcLog' = rcLog \o Repeat(scored, PlainCall("UpdateItemSentiment"))
          /\ rc' = [Warn(Warn(rc, failed, TRUE), IF scoreErr THEN 1 ELSE 0, FALSE)
                       EXCEPT !.pc = NextPhase("score")]
    /\ UNCHANGED <<notRc, coreVars>>

\* the on-chain snapshots: one reader, that of the first symbol, per interval
RcOnChain ==
    /\ rc.pc = "onchain"
    /\ \E got \in [1..Len(rc.intervals) -> OnChainOutcomes] :
          LET n == Len(rc.intervals)
              on == rc.enableOnChain
              faults == Count({i \in 1..n : got[i] \in {"fetch_error", "store_error"}})
              calls == [i \in 1..n |->
                          Call("UpsertOnChainSnapshot", rc.intervals[i], RcSymbols[1],
                               closedBucket(rc.now, rc.intervals[i]), "", "")]
              Stores(e) == \E i \in 1..n :
                              /\ e = calls[i]
                              /\ got[i] \in {"store_error", "stored"}
              stored == {rc.intervals[i] : i \in {k \in 1..n : got[k] = "stored"}}
          IN  /\ faults <= FaultsLeft(rc)
              /\ ~on => \A i \in 1..n : got[i] = "nil"
              /\ rcLog' = IF on THEN rcLog \o SelectSeq(calls, Stores) ELSE rcLog
              /\ rc' = IF on
                       THEN [Warn(Warn(rc, Count({i \in 1..n : got[i] = "store_error"}), TRUE),
                                  Count({i \in 1..n : got[i] = "fetch_error"}), FALSE)
                               EXCEPT !.pc = NextPhase("onchain"), !.onchain = stored]
                       ELSE [rc EXCEPT !.pc = NextPhase("onchain")]
    /\ UNCHANGED <<notRc, coreVars>>

\* one (interval, symbol) pair: GetSentimentAverages, BuildComposite and
\* UpsertCompositeSnapshot, then the direction and signal store check
RcComposite ==
    /\ rc.pc = "composites"
    /\ LET interval == rc.intervals[rc.ii]
           symbol == RcSymbols[rc.si]
           bucket == closedBucket(rc.now, interval)
       IN  \E avgOk \in Oks(rc), stats \in StatsChoices, dbok \in Oks(rc) :
              LET input == [n \in ComponentNames |->
                              IF n = "onchain"
                              THEN IF rc.si = 1 /\ interval \in rc.onchain
                                   THEN [score |-> 1000, confidence |-> 5000,
                                         available |-> TRUE]
                                   ELSE [score |-> 0, confidence |-> 0, available |-> FALSE]
                              ELSE stats[n]]
                  computed == BuildComposite(input)
              IN  IF ~avgOk
                  THEN /\ rc' = NextPair(Warn(rc, 1, TRUE))
                       /\ UNCHANGED rcLog
                  ELSE /\ rcLog' = Append(rcLog,
                                       Call("UpsertCompositeSnapshot", interval, symbol,
                                            bucket, computed.direction, ""))
                       /\ rc' =
                            IF ~dbok THEN NextPair(Warn(rc, 1, TRUE))
                            ELSE LET r == [rc EXCEPT !.res.compositesWritten = @ + 1]
                                 IN  IF computed.direction = DirectionHold \/ ~rc.signalStore
                                     THEN NextPair(r)
                                     ELSE [r EXCEPT !.pc = "signal",
                                                    !.direction = computed.direction]
    /\ UNCHANGED <<notRc, coreVars>>

\* InsertSignals of the composite's signal
RcSignal ==
    /\ rc.pc = "signal"
    /\ rcLog' = Append(rcLog, Call("InsertSignals", rc.intervals[rc.ii], RcSymbols[rc.si],
                                   closedBucket(rc.now, rc.intervals[rc.ii]),
                                   rc.direction, IndicatorFundSentimentComposite))
    /\ \E dbok \in Oks(rc) :
          rc' = IF dbok THEN [rc EXCEPT !.pc = "attach"]
                ELSE NextPair([Warn(rc, 1, TRUE) EXCEPT !.pc = "composites"])
    /\ UNCHANGED <<notRc, coreVars>>

\* AttachCompositeSignalID; the signal is counted whether or not it fails
RcAttach ==
    /\ rc.pc = "attach"
    /\ rcLog' = Append(rcLog, Call("AttachCompositeSignalID", rc.intervals[rc.ii],
                                   RcSymbols[rc.si],
                                   closedBucket(rc.now, rc.intervals[rc.ii]), "", ""))
    /\ \E dbok \in Oks(rc) :
          LET r == [rc EXCEPT !.pc = "composites", !.res.signalsWritten = @ + 1]
          IN  rc' = NextPair(IF dbok THEN r ELSE Warn(r, 1, TRUE))
    /\ UNCHANGED <<notRc, coreVars>>

\* DeleteOlderThan, and the return of the result with no error
RcRetention ==
    /\ rc.pc = "retention"
    /\ rcLog' = Append(rcLog, PlainCall("DeleteOlderThan"))
    /\ \E dbok \in Oks(rc) :
          rc' = [(IF dbok THEN rc ELSE Warn(rc, 1, TRUE)) EXCEPT !.pc = NextPhase("retention")]
    /\ UNCHANGED <<notRc, coreVars>>

-----------------------------------------------------------------------------
(* CandleRepository.UpsertCandles: one INSERT ... ON CONFLICT DO UPDATE per
   candle, sent as one batch, which the server runs in order in one implicit
   transaction. *)

MaxBatchLen == 2

CandleKeys == {<<"BTC", "1h", 0>>, <<"BTC", "1h", 1>>, <<"ETH", "1h", 0>>}

\* open, high, low, close, volume
CandleValues == {<<1, 2, 1, 2, 5>>, <<2, 3, 1, 1, 7>>}

Candle(key, v) ==
    [symbol |-> key[1], interval |-> key[2], openTime |-> key[3],
     open |-> v[1], high |-> v[2], low |-> v[3], close |-> v[4], volume |-> v[5]]

CandleKey(c) == <<c.symbol, c.interval, c.openTime>>

CandleInputs == {Candle(k, v) : k \in CandleKeys, v \in CandleValues}

CandleBatches == UNION {[1..n -> CandleInputs] : n \in 0..MaxBatchLen}

\* INSERT ... ON CONFLICT (symbol, interval, open_time) DO NOTHING
UpsertCandleKeepFirst(rows, c) ==
    IF \E r \in rows : CandleKey(r) = CandleKey(c) THEN rows ELSE rows \cup {c}

\* INSERT ... ON CONFLICT (symbol, interval, open_time) DO UPDATE SET ...
UpsertCandle(rows, c) ==
    {r \in rows : CandleKey(r) # CandleKey(c)} \cup {c}

\* the statements of a batch, in the order they were queued
RECURSIVE UpsertCandles(_, _)
UpsertCandles(rows, batch) ==
    IF batch = <<>> THEN rows
    ELSE UpsertCandles(UpsertCandle(rows, Head(batch)), Tail(batch))

NoCandleCall == [batch |-> <<>>, failed |-> FALSE]

CandleInit ==
    /\ candleRows = {}
    /\ candleLast = [k \in CandleKeys |-> <<>>]
    /\ candleCall = NoCandleCall

\* one call of UpsertCandles; a failing statement rolls the batch back
CandleUpsert ==
    \E batch \in CandleBatches, failed \in BOOLEAN :
       /\ failed => batch # <<>>
       /\ candleCall' = [batch |-> batch, failed |-> failed]
       /\ candleRows' = IF failed THEN candleRows ELSE UpsertCandles(candleRows, batch)
       /\ candleLast' =
             IF failed THEN candleLast
             ELSE [k \in CandleKeys |->
                     LET at == {i \in DOMAIN batch : CandleKey(batch[i]) = k}
                     IN  IF at = {} THEN candleLast[k]
                         ELSE LET c == batch[CHOOSE i \in at : \A j \in at : j <= i]
                              IN  <<c.open, c.high, c.low, c.close, c.volume>>]
       /\ UNCHANGED <<notCandle, coreVars>>

-----------------------------------------------------------------------------
(* buildCandlesFromMarketChart. Timestamps and durations are in minutes; a
   price point is <<timestamp, price>>, a volume point <<timestamp, volume>>. *)

MaxPoints == 3

intervalToDuration(interval) ==
    CASE interval = "5m" -> 5
      [] interval = "15m" -> 15
      [] interval = "1h" -> 60
      [] interval = "4h" -> 240
      [] interval = "1d" -> 1440
      [] OTHER -> 0

\* time.Truncate: down to a multiple of d
Truncate(t, d) == t - (t % d)

\* the orders sort.Slice may leave: by timestamp, equal timestamps in any order
IsSortedByTime(q) == \A i, j \in DOMAIN q : i < j => q[i][1] <= q[j][1]

\* the prices are bucketed in the order they came in
InputOrder(prices) == {prices}

SortedOrders(prices) ==
    LET n == Len(prices)
        perms == {f \in [1..n -> 1..n] : \A i, j \in 1..n : i # j => f[i] # f[j]}
    IN  {q \in {[i \in 1..n |-> prices[f[i]]] : f \in perms} : IsSortedByTime(q)}

\* the loop over the sorted prices: buckets maps a bucket start to its bucket
RECURSIVE bucketPrices(_, _, _)
bucketPrices(sorted, d, buckets) ==
    IF sorted = <<>> THEN buckets
    ELSE LET pt == Head(sorted)
             bucketTS == Truncate(pt[1], d)
             price == pt[2]
             b == IF bucketTS \in DOMAIN buckets
                  THEN [buckets[bucketTS] EXCEPT
                          !.high = IF price > @ THEN price ELSE @,
                          !.low = IF price < @ THEN price ELSE @,
                          !.close = price]
                  ELSE [open |-> price, high |-> price, low |-> price,
                        close |-> price, openTime |-> bucketTS]
         IN  bucketPrices(Tail(sorted), d,
                          [k \in DOMAIN buckets \cup {bucketTS} |->
                              IF k = bucketTS THEN b ELSE buckets[k]])

RECURSIVE findClosestFrom(_, _, _, _)
findClosestFrom(volumes, targetTs, closest, minDiff) ==
    IF volumes = <<>> THEN closest[2]
    ELSE LET v == Head(volumes)
             diff == Abs(v[1] - targetTs)
         IN  IF minDiff = -1 \/ diff < minDiff
             THEN findClosestFrom(Tail(volumes), targetTs, v, diff)
             ELSE findClosestFrom(Tail(volumes), targetTs, closest, minDiff)

\* findClosestVolume; minDiff -1 stands for math.MaxInt64
findClosestVolume(volumes, targetTs) ==
    IF volumes = <<>> THEN 0
    ELSE findClosestFrom(volumes, targetTs, volumes[1], -1)

\* the keys of the buckets in increasing order
RECURSIVE sortedKeys(_)
sortedKeys(S) ==
    IF S = {} THEN <<>>
    ELSE LET k == CHOOSE x \in S : \A y \in S : x <= y
         IN  <<k>> \o sortedKeys(S \ {k})

\* buildCandlesFromMarketChart, from the order the sort left
buildCandlesFromMarketChart(symbol, interval, sorted, volumes) ==
    LET d == intervalToDuration(interval)
        buckets == bucketPrices(sorted, d, <<>>)
        keys == sortedKeys(DOMAIN buckets)
    IN  IF sorted = <<>> \/ d = 0 THEN <<>>
        ELSE [i \in DOMAIN keys |->
                LET b == buckets[keys[i]]
                IN  [symbol |-> symbol, interval |-> interval, openTime |-> b.openTime,
                     open |-> b.open, high |-> b.high, low |-> b.low, close |-> b.close,
                     volume |-> findClosestVolume(volumes, keys[i] + d)]]

PricePoints == {<<ts, price>> : ts \in {0, 4, 5, 61}, price \in {1, 2, 3}}

PriceSeries == UNION {[1..n -> PricePoints] : n \in 0..MaxPoints}

VolumeSeries == {<<>>, <<<<5, 100>>, <<10, 200>>>>}

ChartIntervals == {"5m", "15m", "1h", "4h", "1d", "2h"}

ApplyBuildCandles ==
    /\ fnRet = NoRet
    /\ fnArg.fn = "buildCandlesFromMarketChart"
    /\ \E sorted \in SortedOrders(fnArg.prices) :
          fnRet' = [fn |-> "buildCandlesFromMarketChart",
                    val |-> buildCandlesFromMarketChart(fnArg.symbol, fnArg.interval,
                                                        sorted, fnArg.volumes)]
    /\ UNCHANGED <<fnArg, notFn, coreVars>>

-----------------------------------------------------------------------------
(* features.Engine.BuildRows. Open times are in hours; of a feature row the
   open time and the label are kept, of its features only whether one of
   them is NaN. *)

MaxTail == 5

\* the first index BuildRows emits a row for
WarmUp == 24

DefaultTargetHours == 4

\* normalizeCandles: the candles in the order of their open times
RECURSIVE normalizeCandles(_)
normalizeCandles(cs) ==
    IF cs = {} THEN <<>>
    ELSE LET c == CHOOSE x \in cs : \A y \in cs : x.openTime <= y.openTime
         IN  <<c>> \o normalizeCandles(cs \ {c})

\* pctReturn is NaN: no value lag steps back, or a base of 0 (idx from 0)
pctReturnNaN(closes, idx, lag) ==
    idx - lag < 0 \/ closes[idx - lag + 1] = 0

\* rollingVolatility is NaN
rollingVolatilityNaN(closes, idx, window) ==
    \/ idx - window + 1 <= 0
    \/ \E j \in (idx - window + 1)..idx : closes[j] = 0

\* rollingZ is NaN
rollingZNaN(idx, window) == idx - window < 0

\* the RSI, MACD and Bollinger values at idx are NaN: RSISeries fills from
\* index 14 on, BollingerSeries from index 19 on
indicatorsNaN(n, idx) == n <= 14 \/ idx < 14 \/ idx < 19

featuresNaN(closes, idx) ==
    \/ \E lag \in {1, 4, 12, 24} : pctReturnNaN(closes, idx, lag)
    \/ rollingVolatilityNaN(closes, idx, 6)
    \/ rollingVolatilityNaN(closes, idx, 24)
    \/ rollingZNaN(idx, 24)
    \/ indicatorsNaN(Len(closes), idx)

\* TargetUp4H: a *bool, nil when absent
Label(up) == IF up THEN "true" ELSE "false"

\* the label of the row at idx: by the index of the target candle
targetAt(norm, idx, targetHours) ==
    IF idx + targetHours < Len(norm)
    THEN Label(norm[idx + targetHours + 1].close > norm[idx + 1].close)
    ELSE "absent"

BuildRows(candles, targetHours) ==
    LET norm == normalizeCandles(candles)
        n == Len(norm)
        hours == IF targetHours <= 0 THEN DefaultTargetHours ELSE targetHours
        closes == [i \in 1..n |-> norm[i].close]
        emitted == {idx \in 0..(n - 1) :
                       /\ ~(idx < WarmUp \/ idx >= n - 1)
                       /\ ~featuresNaN(closes, idx)}
        order == sortedKeys(emitted)
    IN  [k \in DOMAIN order |->
            [openTime |-> norm[order[k] + 1].openTime,
             targetUp4h |-> targetAt(norm, order[k], hours)]]

\* candle histories: the hours 0..24 at close 1, then each of the next
\* MaxTail hours missing (-1) or with a close of 0, 1 or 2
TailChoices == [1..MaxTail -> {-1, 0, 1, 2}]

History(tail) ==
    {[openTime |-> h, close |-> 1] : h \in 0..WarmUp} \cup
    {[openTime |-> WarmUp + i, close |-> tail[i]] :
        i \in {k \in 1..MaxTail : tail[k] >= 0}}

TargetHoursInputs == {0, 2}

ApplyBuildRows ==
    /\ fnRet = NoRet
    /\ fnArg.fn = "BuildRows"
    /\ fnRet' = [fn |-> "BuildRows", val |-> BuildRows(fnArg.candles, fnArg.targetHours)]
    /\ UNCHANGED <<fnArg, notFn, coreVars>>

-----------------------------------------------------------------------------
(* chronologicalSplit. A dataset is the sequence of its labelled rows
   <<sample, label>> in time order (the code's parallel slices samples and
   labels); int(float64(n) * 0.70) is the floor of 70n/100 for the sizes
   drawn here. *)

MaxRows == 6
DefaultMinTrainSamples == 1000

\* the 70% / 85% cut points without the clamps
chronologicalSplitNaive(rows) ==
    LET n == Len(rows)
        trainEnd == (n * 70) \div 100
        valEnd == (n * 85) \div 100
    IN  IF n = 0
        THEN [train |-> <<>>, val |-> <<>>, test |-> <<>>, panic |-> FALSE]
        ELSE [train |-> SubSeq(rows, 1, trainEnd),
              val |-> SubSeq(rows, trainEnd + 1, valEnd),
              test |-> SubSeq(rows, valEnd + 1, n), panic |-> FALSE]

\* a slice expression s[low:high] of a slice of length n panics unless
\* 0 <= low <= high <= n
SliceInRange(low, high, n) == 0 <= low /\ low <= high /\ high <= n

\* panic: one of the three slice expressions of the return is out of range
chronologicalSplit(rows) ==
    LET n == Len(rows)
        t0 == (n * 70) \div 100
        v0 == (n * 85) \div 100
        t1 == IF t0 <= 0 THEN n \div 2 ELSE t0
        v1 == IF v0 <= t1 THEN (t1 + n) \div 2 ELSE v0
        v2 == IF v1 >= n THEN n - 1 ELSE v1
        t2 == IF v2 <= t1 THEN n - 2 ELSE t1
        v3 == IF v2 <= t1 THEN n - 1 ELSE v2
        t3 == IF t2 < 1 THEN 1 ELSE t2
        v4 == IF v3 < t3 + 1 THEN t3 + 1 ELSE v3
        v5 == IF v4 >= n THEN n - 1 ELSE v4
    IN  IF n = 0
        THEN [train |-> <<>>, val |-> <<>>, test |-> <<>>, panic |-> FALSE]
        ELSE IF ~(SliceInRange(0, t3, n) /\ SliceInRange(t3, v5, n) /\ SliceInRange(v5, n, n))
        THEN [train |-> <<>>, val |-> <<>>, test |-> <<>>, panic |-> TRUE]
        ELSE [train |-> SubSeq(rows, 1, t3),
              val |-> SubSeq(rows, t3 + 1, v5),
              test |-> SubSeq(rows, v5 + 1, n), panic |-> FALSE]

\* datasets of 0..MaxRows rows; sample i is the i-th row's feature vector
Datasets ==
    UNION {{[i \in 1..n |-> <<i, lab[i]>>] : lab \in [1..n -> {0, 1}]} : n \in 0..MaxRows}

ApplySplit ==
    /\ fnRet = NoRet
    /\ fnArg.fn = "chronologicalSplit"
    /\ fnRet' = [fn |-> "chronologicalSplit", val |-> chronologicalSplit(fnArg.rows)]
    /\ UNCHANGED <<fnArg, notFn, coreVars>>

\* NewService: cfg.MinTrainSamples <= 0 becomes the default
NewService(minTrainSamples) ==
    [MinTrainSamples |-> IF minTrainSamples <= 0 THEN DefaultMinTrainSamples
                         ELSE minTrainSamples]

\* TrainAll up to the split and the check of its partitions; what follows
\* (training, metrics, persistAndMaybePromote) returns results or an error
TrainAll(arg) ==
    LET s == NewService(arg.minTrainSamples)
        split == chronologicalSplit(arg.rows)
    IN  IF Len(arg.rows) < s.MinTrainSamples THEN "error: not enough labeled samples"
        ELSE IF split.panic THEN "panic: slice bounds out of range"
        ELSE IF Len(split.train) = 0 \/ Len(split.test) = 0
        THEN "error: dataset split produced empty partitions"
        ELSE IF arg.trains THEN "results" ELSE "error: train"

\* cfg.MinTrainSamples as configured
MinTrainSamplesInputs == {0, 1, 2, 3}

ApplyTrainAll ==
    /\ fnRet = NoRet
    /\ fnArg.fn = "TrainAll"
    /\ fnRet' = [fn |-> "TrainAll", val |-> TrainAll(fnArg)]
    /\ UNCHANGED <<fnArg, notFn, coreVars>>

-----------------------------------------------------------------------------
(* ExtractSymbolsFromContent. A Go string is the sequence of its characters;
   characters are ordered as their bytes are: space, $, A..Z, _, a..z. *)

Upper == <<"A", "B", "C", "D", "E", "F", "G", "H", "I", "J", "K", "L", "M", "N", "O", "P", "Q", "R", "S", "T", "U", "V", "W", "X", "Y", "Z">>

Lower == <<"a", "b", "c", "d", "e", "f", "g", "h", "i", "j", "k", "l", "m", "n", "o", "p", "q", "r", "s", "t", "u", "v", "w", "x", "y", "z">>

Alphabet == <<" ", "$">> \o Upper \o <<"_">> \o Lower

Ord(ch) == CHOOSE i \in DOMAIN Alphabet : Alphabet[i] = ch

IsLetter(ch) == \E i \in DOMAIN Upper : ch = Upper[i] \/ ch = Lower[i]

ToLower(s) ==
    [i \in DOMAIN s |->
        IF \E k \in DOMAIN Upper : Upper[k] = s[i]
        THEN Lower[CHOOSE k \in DOMAIN Upper : Upper[k] = s[i]]
        ELSE s[i]]

ToUpper(s) ==
    [i \in DOMAIN s |->
        IF \E k \in DOMAIN Lower : Lower[k] = s[i]
        THEN Upper[CHOOSE k \in DOMAIN Lower : Lower[k] = s[i]]
        ELSE s[i]]

TrimSpace(s) ==
    LET inked == {i \in DOMAIN s : s[i] # " "}
    IN  IF inked = {} THEN <<>>
        ELSE SubSeq(s, CHOOSE i \in inked : \A j \in inked : i <= j,
                       CHOOSE i \in inked : \A j \in inked : j <= i)

TrimPrefix(s, prefix) ==
    IF Len(s) >= Len(prefix) /\ SubSeq(s, 1, Len(prefix)) = prefix
    THEN SubSeq(s, Len(prefix) + 1, Len(s))
    ELSE s

Contains(s, sub) ==
    \E i \in 1..(Len(s) - Len(sub) + 1) : SubSeq(s, i, i + Len(sub) - 1) = sub

\* the order of Go's string comparison
Less(a, b) ==
    \E k \in 1..(Min(Len(a), Len(b)) + 1) :
        /\ \A j \in 1..(k - 1) : a[j] = b[j]
        /\ \/ k > Len(a) /\ k <= Len(b)
           \/ k <= Len(a) /\ k <= Len(b) /\ Ord(a[k]) < Ord(b[k])

RECURSIVE SortStrings(_)
SortStrings(S) ==
    IF S = {} THEN <<>>
    ELSE LET first == CHOOSE x \in S : \A y \in S : x = y \/ Less(x, y)
         IN  <<first>> \o SortStrings(S \ {first})

\* symbolTokenRx = \$?[A-Za-z]{2,10}: the letters matched from position from
LetterRun(text, from) ==
    CHOOSE k \in 0..10 :
        /\ \A j \in from..(from + k - 1) : j <= Len(text) /\ IsLetter(text[j])
        /\ k = 10 \/ from + k > Len(text) \/ ~IsLetter(text[from + k])

RECURSIVE FindAllString(_, _)
FindAllString(text, i) ==
    IF i > Len(text) THEN {}
    ELSE LET from == IF text[i] = "$" THEN i + 1 ELSE i
             run == LetterRun(text, from)
         IN  IF run >= 2
             THEN {SubSeq(text, i, from + run - 1)} \cup FindAllString(text, from + run)
             ELSE FindAllString(text, i + 1)

\* the spelling of the supported symbols
Spell ==
    [BTC |-> <<"B", "T", "C">>,
     ETH |-> <<"E", "T", "H">>,
     SOL |-> <<"S", "O", "L">>,
     XRP |-> <<"X", "R", "P">>,
     ADA |-> <<"A", "D", "A">>,
     DOGE |-> <<"D", "O", "G", "E">>,
     DOT |-> <<"D", "O", "T">>,
     AVAX |-> <<"A", "V", "A", "X">>,
     LINK |-> <<"L", "I", "N", "K">>,
     MATIC |-> <<"M", "A", "T", "I", "C">>]

symbolAlias ==
    [BTC |-> {<<"b", "t", "c">>, <<"b", "i", "t", "c", "o", "i", "n">>, <<"x", "b", "t">>},
     ETH |-> {<<"e", "t", "h">>, <<"e", "t", "h", "e", "r", "e", "u", "m">>},
     SOL |-> {<<"s", "o", "l">>, <<"s", "o", "l", "a", "n", "a">>},
     XRP |-> {<<"x", "r", "p">>, <<"r", "i", "p", "p", "l", "e">>, <<"x", "r", "p", "l">>},
     ADA |-> {<<"a", "d", "a">>, <<"c", "a", "r", "d", "a", "n", "o">>},
     DOGE |-> {<<"d", "o", "g", "e">>, <<"d", "o", "g", "e", "c", "o", "i", "n">>},
     DOT |-> {<<"d", "o", "t">>, <<"p", "o", "l", "k", "a", "d", "o", "t">>},
     AVAX |-> {<<"a", "v", "a", "x">>, <<"a", "v", "a", "l", "a", "n", "c", "h", "e">>},
     LINK |-> {<<"l", "i", "n", "k">>, <<"c", "h", "a", "i", "n", "l", "i", "n", "k">>},
     MATIC |-> {<<"m", "a", "t", "i", "c">>, <<"p", "o", "l", "y", "g", "o", "n">>}]

\* subredditSymbolHint; "" is the hint of r/cryptocurrency
subredditSymbolHint ==
    {<<<<"b", "i", "t", "c", "o", "i", "n">>, "BTC">>,
     <<<<"e", "t", "h", "e", "r", "e", "u", "m">>, "ETH">>,
     <<<<"c", "a", "r", "d", "a", "n", "o">>, "ADA">>,
     <<<<"r", "i", "p", "p", "l", "e">>, "XRP">>,
     <<<<"x", "r", "p", "l">>, "XRP">>,
     <<<<"c", "r", "y", "p", "t", "o", "c", "u", "r", "r", "e", "n", "c", "y">>, "">>}

ExtractSymbolsFromContent(arg) ==
    LET source == TrimSpace(ToLower(arg.source))
        text == ToLower(arg.title \o <<" ">> \o arg.excerpt)
        found == {TrimSpace(TrimPrefix(ToUpper(raw), <<"$">>)) : raw \in FindAllString(text, 1)}
        byToken == {symbol \in CoinGeckoID : Spell[symbol] \in found}
        byAlias == {symbol \in CoinGeckoID :
                       \E a \in symbolAlias[symbol] : Contains(text, a)}
        byHint == IF arg.hasSubreddit
                  THEN {h[2] : h \in {x \in subredditSymbolHint :
                                         /\ x[1] = ToLower(TrimSpace(arg.subreddit))
                                         /\ x[2] # ""}}
                  ELSE {}
    IN  IF source = <<"f", "e", "a", "r", "_", "g", "r", "e", "e", "d">>
        THEN [i \in DOMAIN SupportedSymbols |-> Spell[SupportedSymbols[i]]]
        ELSE SortStrings({Spell[symbol] : symbol \in byToken \cup byAlias \cup byHint})

ContentSources == {<<"n", "e", "w", "s">>, <<"r", "e", "d", "d", "i", "t">>, <<"f", "e", "a", "r", "_", "g", "r", "e", "e", "d">>}

ContentTitles ==
    {<<>>, <<"B", "i", "t", "c", "o", "i", "n", " ", "E", "T", "H">>,
     <<"$", "a", "d", "a", " ", "u", "p">>,
     <<"s", "o", "l", "u", "t", "i", "o", "n">>,
     <<"d", "o", "g", "e", "c", "o", "i", "n", "x", "r", "p", "l", "i", "n", "k", "k">>}

ContentExcerpts ==
    {<<>>, <<"$", "A", "D", "A">>, <<"n", "o", " ", "t", "o", "k", "e", "n">>, <<"p", "o", "l", "y", "g", "o", "n">>}

ContentSubreddits == {<<" ", "R", "i", "p", "p", "l", "e", " ">>, <<"c", "r", "y", "p", "t", "o", "c", "u", "r", "r", "e", "n", "c", "y">>, <<"g", "o", "l", "f">>}

ApplyExtractSymbols == Apply("ExtractSymbolsFromContent", ExtractSymbolsFromContent)

-----------------------------------------------------------------------------
(* Scorer.Score over the heuristic baseline and OpenAIScorer.ScoreBatch.
   Scores and confidences are in ten-thousandths; a reason is the record of
   its text and the two keyword counts printed into it. *)

MaxItems == 3
DefaultBatchSize == 24

bullish ==
    {<<"b", "u", "l", "l">>,
     <<"b", "r", "e", "a", "k", "o", "u", "t">>,
     <<"s", "u", "r", "g", "e">>,
     <<"r", "a", "l", "l", "y">>,
     <<"a", "d", "o", "p", "t", "i", "o", "n">>,
     <<"o", "u", "t", "f", "l", "o", "w">>,
     <<"g", "r", "o", "w", "t", "h">>,
     <<"b", "u", "y">>,
     <<"u", "p", "t", "r", "e", "n", "d">>,
     <<"r", "e", "c", "o", "v", "e", "r">>}

bearish ==
    {<<"b", "e", "a", "r">>,
     <<"d", "u", "m", "p">>,
     <<"s", "e", "l", "l">>,
     <<"c", "r", "a", "s", "h">>,
     <<"h", "a", "c", "k">>,
     <<"l", "a", "w", "s", "u", "i", "t">>,
     <<"b", "a", "n">>,
     <<"i", "n", "f", "l", "o", "w">>,
     <<"d", "e", "c", "l", "i", "n", "e">>,
     <<"d", "o", "w", "n", "t", "r", "e", "n", "d">>,
     <<"l", "i", "q", "u", "i", "d", "a", "t", "i", "o", "n">>}

countMatches(text, words) == Cardinality({w \in words : Contains(text, w)})

HeuristicSentiment(title, excerpt) ==
    LET text == ToLower(TrimSpace(title \o <<" ">> \o excerpt))
        bullCount == countMatches(text, bullish)
        bearCount == countMatches(text, bearish)
        diff == bullCount - bearCount
        raw == IF diff >= 0 THEN (diff * One) \div (bullCount + bearCount + 1)
               ELSE -((-diff * One) \div (bullCount + bearCount + 1))
        score == clamp(raw, -One, One)
    IN  IF text = <<>>
        THEN [Score |-> 0, Confidence |-> 2500, Label |-> "neutral",
              Reason |-> [text |-> "empty-text", bull |-> 0, bear |-> 0]]
        ELSE [Score |-> score,
              Confidence |-> clamp(3500 + 1000 * Abs(diff), 2500, 7000),
              Label |-> IF score > 2000 THEN "bullish"
                        ELSE IF score < -2000 THEN "bearish" ELSE "neutral",
              Reason |-> [text |-> "heuristic keywords", bull |-> bullCount, bear |-> bearCount]]

Heuristic(item) ==
    LET h == HeuristicSentiment(item.Title, item.Excerpt)
    IN  [ItemID |-> item.ID, Score |-> h.Score, Confidence |-> h.Confidence,
         Label |-> h.Label, Reason |-> h.Reason, Model |-> "heuristic:v1"]

normalizeLabel(label) ==
    IF label \in {"bull", "bullish", "positive"} THEN "bullish"
    ELSE IF label \in {"bear", "bearish", "negative"} THEN "bearish"
    ELSE "neutral"

\* the row the completion holds for an id: out of range, to be clamped
ParsedRow(id) ==
    [ID |-> id, Score |-> 2 * One, Confidence |-> -1, Label |-> "positive", Reason |-> ""]

\* byID of ScoreBatch with every id accepted
InBatchAny(batch, id) == TRUE

\* byID of ScoreBatch: the ids of the batch
InBatch(batch, id) == \E k \in DOMAIN batch : batch[k].ID = id

\* OpenAIScorer.ScoreBatch on a completion with rows for the ids in answer.ids
\* (in ascending id order after the sort), or failing
ScoreBatch(batch, answer) ==
    IF answer.err THEN [err |-> TRUE, rows |-> {}]
    ELSE [err |-> FALSE,
          rows |-> {[ItemID |-> ParsedRow(id).ID,
                     Score |-> clamp(ParsedRow(id).Score, -One, One),
                     Confidence |-> clamp(ParsedRow(id).Confidence, 0, One),
                     Label |-> normalizeLabel(ParsedRow(id).Label),
                     Reason |-> ParsedRow(id).Reason,
                     Model |-> "llm:gpt-4o-mini"] :
                        id \in {x \in answer.ids : InBatch(batch, x)}}]

NewScorer(hasLLM, batchSize) ==
    [llm |-> hasLLM, batchSize |-> IF batchSize <= 0 THEN DefaultBatchSize ELSE batchSize]

\* the batch item i is in, and the items of batch b
BatchOf(s, i) == ((i - 1) \div s.batchSize) + 1

BatchItems(s, items, b) ==
    SubSeq(items, (b - 1) * s.batchSize + 1, Min(b * s.batchSize, Len(items)))

\* resultByID after the batches 1..b
RECURSIVE resultByID(_, _, _, _)
resultByID(s, items, answers, b) ==
    IF b = 0 \/ ~s.llm
    THEN [id \in {items[i].ID : i \in DOMAIN items} |->
             Heuristic(items[CHOOSE i \in DOMAIN items :
                                 /\ items[i].ID = id
                                 /\ \A j \in DOMAIN items : items[j].ID = id => j <= i])]
    ELSE LET before == resultByID(s, items, answers, b - 1)
             scored == ScoreBatch(BatchItems(s, items, b), answers[b])
         IN  IF scored.err THEN before
             ELSE [id \in DOMAIN before |->
                     IF \E row \in scored.rows : row.ItemID = id
                     THEN LET row == CHOOSE r \in scored.rows : r.ItemID = id
                          IN  [ItemID |-> before[id].ItemID,
                               Score |-> clamp(row.Score, -One, One),
                               Confidence |-> clamp(row.Confidence, 0, One),
                               Label |-> normalizeLabel(row.Label),
                               Reason |-> IF row.Reason = ""
                                          THEN [text |-> "llm", bull |-> 0, bear |-> 0]
                                          ELSE [text |-> row.Reason, bull |-> 0, bear |-> 0],
                               Model |-> IF row.Model # "" THEN row.Model ELSE before[id].Model]
                     ELSE before[id]]

ScorerScore(arg) ==
    LET s == NewScorer(arg.hasLLM, arg.batchSize)
        items == arg.items
        batches == IF items = <<>> THEN 0 ELSE BatchOf(s, Len(items))
        result == resultByID(s, items, arg.answers, batches)
    IN  [err |-> FALSE, out |-> [i \in DOMAIN items |-> result[items[i].ID]]]

ItemTitles == {<<"H", "a", "c", "k">>, <<"b", "u", "l", "l", " ", "r", "a", "l", "l", "y">>}

\* 1..n items with the ids 1..n in either order
ItemLists ==
    UNION {{[i \in 1..n |-> [ID |-> IF up THEN i ELSE n + 1 - i,
                             Title |-> title[i], Excerpt |-> <<>>]] :
               title \in [1..n -> ItemTitles], up \in BOOLEAN} : n \in 0..MaxItems}

\* a completion fails or holds rows for some of these ids; 9 is no item's id
AnswerIds == {1, 2, 9}

Answers == {[err |-> TRUE, ids |-> {}]} \cup {[err |-> FALSE, ids |-> ids] : ids \in SUBSET AnswerIds}

ApplyScore == Apply("Score", ScorerScore)

-----------------------------------------------------------------------------
(* The ensemble step of RunInference for one feature row: the classic score
   and what the deployed classifiers predict, fused by ensemble.Score.
   Inputs are whole hundredths, so the score in ten-thousandths is exact. *)

ensembleStep(arg) ==
    LET logProb == IF arg.hasLog THEN Clamp01(arg.log) ELSE Half
        xgbProb == IF arg.hasXgb THEN Clamp01(arg.xgb) ELSE Half
        raw == Score(arg.classic, logProb, xgbProb)
        ensembleScore == IF raw > One THEN One ELSE IF raw < -One THEN -One ELSE raw
    IN  [score |-> ensembleScore,
         probUp |-> Clamp01((ensembleScore + One) \div 2),
         direction |-> Direction(ensembleScore)]

EnsembleClassic == {-One, -5100, -5000, -2000, 0, 2000, 5000, 5100, One}

\* classifier outputs before Clamp01
EnsembleProbs == {-100, 0, 3000, 5000, 7000, One, One + 100}

ApplyEnsemble == Apply("ensemble", ensembleStep)

-----------------------------------------------------------------------------
(* marketintel Service.RunCycle: ingesting and scoring news and reddit intelItems.
   The scheduled job and POST /api/market-intel/run each run whole cycles
   against the one market_intel_items table. The symbols of an item, the
   retention and the LIMIT of the list (at least 200 rows) play no part. *)

\* (source, sourceItemId) of the items the feeds hold
ItemKeys == {<<"news", "a">>, <<"reddit", "b">>}

\* published_at of an item
PublishedAt(key) == IF key[1] = "news" THEN 1 ELSE 2

NoReason == [text |-> "", bull |-> 0, bear |-> 0]

\* what the feeds return in one cycle: some of the items, each with a title
FetchedSets == UNION {[ks -> ItemTitles] : ks \in SUBSET ItemKeys}

\* the completion of one cycle's batch: it fails or holds a row per item
ScoreAnswers == {[err |-> TRUE, ids |-> {}], [err |-> FALSE, ids |-> 1..Cardinality(ItemKeys)]}

\* providerContentToItem and UpsertItems of one item: the sentiment columns
\* of the statement are NULL, so COALESCE keeps what is stored
UpsertItem(rows, key, title) ==
    IF \E r \in rows : r.key = key
    THEN {IF r.key = key THEN [r EXCEPT !.title = title] ELSE r : r \in rows}
    ELSE rows \cup {[id |-> Cardinality(rows) + 1, key |-> key, title |-> title,
                     score |-> 0, confidence |-> 0, label |-> "", model |-> "",
                     reason |-> NoReason, scoredAt |-> NullTime]}

RECURSIVE UpsertItems(_, _)
UpsertItems(rows, fetched) ==
    IF DOMAIN fetched = {} THEN rows
    ELSE LET key == CHOOSE k \in DOMAIN fetched : TRUE
         IN  UpsertItems(UpsertItem(rows, key, fetched[key]),
                         [k \in DOMAIN fetched \ {key} |-> fetched[k]])

\* ListUnscoredItems: WHERE scored_at IS NULL ORDER BY published_at DESC
RECURSIVE NewestFirst(_)
NewestFirst(rows) ==
    IF rows = {} THEN <<>>
    ELSE LET r == CHOOSE x \in rows :
                     \A y \in rows : PublishedAt(y.key) <= PublishedAt(x.key)
         IN  <<[ID |-> r.id, Title |-> r.title, Excerpt |-> <<>>]>> \o
             NewestFirst(rows \ {r})

ListUnscoredItems(rows) == NewestFirst({r \in rows : r.scoredAt = NullTime})

\* UpdateItemSentiment: UPDATE ... WHERE id = $1
UpdateItemSentiment(rows, row, scoredAt) ==
    {IF r.id = row.ItemID
     THEN [r EXCEPT !.score = row.Score, !.confidence = row.Confidence,
                    !.label = row.Label, !.model = row.Model,
                    !.reason = row.Reason, !.scoredAt = scoredAt]
     ELSE r : r \in rows}

ScIdle == [pc |-> "idle", runs |-> 0, now |-> 0, unscored |-> <<>>, scored |-> <<>>]

ItemInit ==
    /\ intelItems = {}
    /\ scoring = [c \in Cyclers |-> ScIdle]

ScReturn(c) ==
    scoring' = [scoring EXCEPT ![c].pc = "idle", ![c].unscored = <<>>, ![c].scored = <<>>]

\* the feeds are fetched and UpsertItems stores what they returned
ScIngest(c) ==
    /\ scoring[c].pc = "idle"
    /\ scoring[c].runs < MaxScoreCycles
    /\ \E dbok \in BOOLEAN, fetched \in FetchedSets :
          IF ~dbok
          THEN /\ scoring' = [scoring EXCEPT ![c].runs = @ + 1]
               /\ UNCHANGED intelItems
          ELSE /\ intelItems' = UpsertItems(intelItems, fetched)
               /\ scoring' = [scoring EXCEPT ![c].pc = "list", ![c].runs = @ + 1, ![c].now = now]
    /\ UNCHANGED <<notItem, coreVars>>

\* ListUnscoredItems; its error ends the cycle
ScList(c) ==
    /\ scoring[c].pc = "list"
    /\ \E dbok \in BOOLEAN :
          IF ~dbok
          THEN ScReturn(c)
          ELSE scoring' = [scoring EXCEPT ![c].pc = "score", ![c].unscored = ListUnscoredItems(intelItems)]
    /\ UNCHANGED <<intelItems, notItem, coreVars>>

\* scorer.Score of the listed items, in one batch
ScScore(c) ==
    /\ scoring[c].pc = "score"
    /\ \E answer \in ScoreAnswers :
          LET scored == ScorerScore([hasLLM |-> TRUE, batchSize |-> 0,
                                     items |-> scoring[c].unscored, answers |-> <<answer>>])
          IN  scoring' = [scoring EXCEPT ![c].pc = "update", ![c].scored = scored.out]
    /\ UNCHANGED <<intelItems, notItem, coreVars>>

\* the loop over the scored rows: one UpdateItemSentiment, with the cycle's now
ScUpdate(c) ==
    /\ scoring[c].pc = "update"
    /\ IF scoring[c].scored = <<>>
       THEN /\ ScReturn(c)
            /\ UNCHANGED intelItems
       ELSE \E dbok \in BOOLEAN :
               /\ intelItems' = IF dbok
                           THEN UpdateItemSentiment(intelItems, Head(scoring[c].scored), scoring[c].now)
                           ELSE intelItems
               /\ scoring' = [scoring EXCEPT ![c].scored = Tail(@)]
    /\ UNCHANGED <<notItem, coreVars>>

\* the variables of this section when nothing of it runs
JobIdle == JobInitWith([j \in Jobs |-> TRUE])

AuxInit ==
    /\ JobIdle
    /\ FnIdle
    /\ RcIdle
    /\ CandleInit
    /\ ItemInit

-----------------------------------------------------------------------------
(* Initial state: an empty registry, every process idle *)

RegInitWith(rows) ==
    /\ models = rows
    /\ txw = [p \in Procs |-> {}]
    /\ stmtRows = [p \in Procs |-> {}]
    /\ pc = [p \in Procs |-> "idle"]
    /\ call = [p \in Procs |-> [key |-> ModelKeyLogReg, version |-> 0]]
    /\ actResult = [p \in Procs |-> "none"]
    /\ kidx = [p \in Cyclers |-> 1]
    /\ ver = [p \in Cyclers |-> 0]
    /\ newAuc = [p \in Cyclers |-> 0]
    /\ testCount = [p \in Cyclers |-> 0]
    /\ results = [p \in Cyclers |-> <<>>]
    /\ cycleErr = [p \in Cyclers |-> "none"]
    /\ cycles = 0

RegInit == RegInitWith({})

\* NewRateLimiter, were the bucket empty at first
NewRateLimiterEmpty(maxT, refill) ==
    /\ tokens = 0
    /\ maxTokens = maxT
    /\ refillInterval = refill
    /\ lastRefill = now
    /\ lpc = [c \in Callers |-> "idle"]
    /\ wakeAt = [c \in Callers |-> 0]
    /\ ctxDone = [c \in Callers |-> FALSE]
    /\ waitRes = [c \in Callers |-> "none"]
    /\ grants = [t \in 0..MaxTime |-> 0]
    /\ minted = 0
    /\ emptySince = [c \in Callers |-> NullTime]

\* NewRateLimiter(maxT, refill)
NewRateLimiter(maxT, refill) ==
    /\ tokens = maxT
    /\ maxTokens = maxT
    /\ refillInterval = refill
    /\ lastRefill = now
    /\ lpc = [c \in Callers |-> "idle"]
    /\ wakeAt = [c \in Callers |-> 0]
    /\ ctxDone = [c \in Callers |-> FALSE]
    /\ waitRes = [c \in Callers |-> "none"]
    /\ grants = [t \in 0..MaxTime |-> 0]
    /\ minted = 0
    /\ emptySince = [c \in Callers |-> NullTime]

Init ==
    /\ now = 0
    /\ RegInit
    /\ PredInit
    /\ PriceInit
    /\ PollInit
    /\ AuxInit
    /\ NewRateLimiter(1, 1)

InitLimiter ==
    /\ now = 0
    /\ RegInit
    /\ PredInit
    /\ PriceInit
    /\ PollInit
    /\ AuxInit
    /\ \E maxT \in 1..MaxBurst, refill \in 1..MaxRefill : NewRateLimiter(maxT, refill)

cycleLocals == <<kidx, ver, newAuc, testCount, results, cycleErr, cycles>>
txVars == <<txw, stmtRows, call, actResult>>

CurKey(p) == TrainOrder[kidx[p]]

-----------------------------------------------------------------------------
(* Service.TrainAll and Service.persistAndMaybePromote, one action per      *)
(* round trip to the registry.  What a cycle computes between two round     *)
(* trips (training, metrics, the result it appends) belongs to the action   *)
(* of the round trip it follows or precedes.                                *)

Result(p, promoted, promoteError) ==
    [modelKey |-> CurKey(p), version |-> ver[p], auc |-> newAuc[p],
     promoted |-> promoted, promoteError |-> promoteError]

\* a returned error ends TrainAll: (nil, err); the job logs it, the handler
\* answers 500
Fail(p, err) ==
    /\ pc' = [pc EXCEPT ![p] = "idle"]
    /\ cycleErr' = [cycleErr EXCEPT ![p] = err]
    /\ results' = [results EXCEPT ![p] = <<>>]
    /\ kidx' = [kidx EXCEPT ![p] = 1]
    /\ ver' = [ver EXCEPT ![p] = 0]
    /\ newAuc' = [newAuc EXCEPT ![p] = 0]
    /\ testCount' = [testCount EXCEPT ![p] = 0]

\* the result is appended and the cycle goes on
Continue(p, res) ==
    /\ results' = [results EXCEPT ![p] = Append(results[p], res)]
    /\ ver' = [ver EXCEPT ![p] = 0]
    /\ newAuc' = [newAuc EXCEPT ![p] = 0]
    /\ UNCHANGED cycleErr
    /\ IF kidx[p] < Len(TrainOrder)
       THEN /\ kidx' = [kidx EXCEPT ![p] = kidx[p] + 1]
            /\ pc' = [pc EXCEPT ![p] = "prepare"]
            /\ UNCHANGED testCount
       ELSE /\ kidx' = [kidx EXCEPT ![p] = 1]
            /\ pc' = [pc EXCEPT ![p] = "idle"]
            /\ testCount' = [testCount EXCEPT ![p] = 0]

\* FinishKey, were a promotion failure returned as the cycle's error
FinishKeyFatal(p, res) ==
    IF res.promoteError # "none" THEN Fail(p, res.promoteError) ELSE Continue(p, res)

\* persistAndMaybePromote returns (result, nil), whatever the promotion did:
\* TrainAll appends the result and goes on to the second classifier, or
\* returns the results
FinishKey(p, res) == Continue(p, res)

\* TrainAll up to its first call of the registry: ListLabeledRows,
\* buildDataset, the MinTrainSamples check, the split, the logistic
\* regression and its metrics, then NextVersion
CycleStart(p) ==
    /\ pc[p] = "idle"
    /\ cycles < MaxCycles
    /\ cycles' = cycles + 1
    /\ \E outcome \in {"ok", "dataset", "train", "db"}, n \in TestCounts, auc \in AUCs :
          IF outcome = "ok"
          THEN /\ testCount' = [testCount EXCEPT ![p] = n]
               /\ newAuc' = [newAuc EXCEPT ![p] = auc]
               /\ ver' = [ver EXCEPT ![p] = NextVersion(CurKey(p))]
               /\ results' = [results EXCEPT ![p] = <<>>]
               /\ cycleErr' = [cycleErr EXCEPT ![p] = "none"]
               /\ pc' = [pc EXCEPT ![p] = "insert"]
               /\ UNCHANGED kidx
          ELSE Fail(p, outcome)
    /\ UNCHANGED <<now, models, txVars, notReg>>

\* the second classifier: Train, MarshalBinary, PredictBatch, computeMetrics,
\* then NextVersion
CyclePrepare(p) ==
    /\ pc[p] = "prepare"
    /\ \E outcome \in {"ok", "train", "db"}, auc \in AUCs :
          IF outcome = "ok"
          THEN /\ newAuc' = [newAuc EXCEPT ![p] = auc]
               /\ ver' = [ver EXCEPT ![p] = NextVersion(CurKey(p))]
               /\ pc' = [pc EXCEPT ![p] = "insert"]
               /\ UNCHANGED <<kidx, testCount, results, cycleErr>>
          ELSE Fail(p, outcome)
    /\ UNCHANGED <<now, models, txVars, cycles, notReg>>

\* InsertModelVersion with IsActive: false
CycleInsert(p) ==
    /\ pc[p] = "insert"
    /\ \E dbok \in BOOLEAN :
          LET outcome == InsertOutcome(p, CurKey(p), ver[p], FALSE)
          IN  IF dbok /\ outcome = "ok"
              THEN /\ models' = models \cup
                        {NewRow(CurKey(p), ver[p], MarshalMetrics(newAuc[p]), FALSE, NullTime)}
                   /\ pc' = [pc EXCEPT ![p] = "decide"]
                   /\ UNCHANGED <<kidx, ver, newAuc, testCount, results, cycleErr>>
              ELSE /\ Fail(p, IF dbok THEN outcome ELSE "db")
                   /\ UNCHANGED models
    /\ UNCHANGED <<now, txVars, cycles, notReg>>

\* shouldPromote (its GetActiveModel may fail), then Begin of ActivateModel
CycleDecide(p) ==
    /\ pc[p] = "decide"
    /\ \E dbok \in BOOLEAN :
          IF ~dbok
          THEN /\ FinishKey(p, Result(p, FALSE, "db"))
               /\ UNCHANGED <<call, actResult>>
          ELSE IF shouldPromote(CurKey(p), newAuc[p], testCount[p], ver[p])
          THEN /\ call' = [call EXCEPT ![p] = [key |-> CurKey(p), version |-> ver[p]]]
               /\ actResult' = [actResult EXCEPT ![p] = "none"]
               /\ pc' = [pc EXCEPT ![p] = "act_clear"]
               /\ UNCHANGED <<kidx, ver, newAuc, testCount, results, cycleErr>>
          ELSE /\ FinishKey(p, Result(p, FALSE, "none"))
               /\ UNCHANGED <<call, actResult>>
    /\ UNCHANGED <<now, models, txw, stmtRows, cycles, notReg>>

\* ActivateModel returns res to its caller: a training cycle sets Promoted or
\* PromoteError, a client is done
ActReturn(p, res) ==
    /\ actResult' = [actResult EXCEPT ![p] = res]
    /\ IF p \in Cyclers
       THEN FinishKey(p, Result(p, res = "ok", IF res = "ok" THEN "none" ELSE res))
       ELSE /\ pc' = [pc EXCEPT ![p] = "idle"]
            /\ UNCHANGED <<kidx, ver, newAuc, testCount, results, cycleErr>>

-----------------------------------------------------------------------------
(* Repository.ActivateModel, one action per database round trip.  It is     *)
(* entered with pc = "act_clear" (the transaction is begun).                *)

InActivate(p) == pc[p] \in {"act_clear", "act_clear_wait", "act_set", "act_commit"}

KeyRowIds(modelKey) == {RowId(r) : r \in {m \in models : m.key = modelKey}}

\* the first UPDATE, were it run outside the transaction
ClearWriteAutocommit(p, rows) ==
    /\ models' = {r \in models : RowId(r) \notin {RowId(w) : w \in rows}} \cup rows
    /\ UNCHANGED txw

\* the first UPDATE writes row versions only its transaction sees
ClearWrite(p, rows) ==
    /\ txw' = [txw EXCEPT ![p] = rows]
    /\ UNCHANGED models

\* the first UPDATE: it runs at once, or takes its snapshot and waits for the
\* rows another transaction has locked
ActClear(p) ==
    /\ pc[p] = "act_clear"
    /\ IF \E id \in KeyRowIds(call[p].key) : LockedByOther(p, id)
       THEN /\ stmtRows' = [stmtRows EXCEPT ![p] = KeyRowIds(call[p].key)]
            /\ pc' = [pc EXCEPT ![p] = "act_clear_wait"]
            /\ UNCHANGED <<txw, models>>
       ELSE /\ ClearWrite(p, ClearedRows(p, KeyRowIds(call[p].key)))
            /\ pc' = [pc EXCEPT ![p] = "act_set"]
            /\ UNCHANGED stmtRows
    /\ UNCHANGED <<now, call, actResult, cycleLocals, notReg>>

\* the blocked UPDATE goes on once the locks are released; it updates the
\* rows of its snapshot, in their newest committed version
ActClearResume(p) ==
    /\ pc[p] = "act_clear_wait"
    /\ ~\E id \in stmtRows[p] : LockedByOther(p, id)
    /\ ClearWrite(p, ClearedRows(p, stmtRows[p]))
    /\ stmtRows' = [stmtRows EXCEPT ![p] = {}]
    /\ pc' = [pc EXCEPT ![p] = "act_set"]
    /\ UNCHANGED <<now, call, actResult, cycleLocals, notReg>>

\* the second UPDATE; no row affected is pgx.ErrNoRows, and the deferred
\* Rollback undoes the first
ActSet(p) ==
    LET k == call[p].key
        v == call[p].version
        target == {r \in View(p) : r.key = k /\ r.version = v}
    IN  /\ pc[p] = "act_set"
        /\ ~LockedByOther(p, <<k, v>>)
        /\ IF target = {}
           THEN /\ txw' = [txw EXCEPT ![p] = {}]
                /\ ActReturn(p, "ErrNoRows")
           ELSE IF ActiveIndexViolation(p, k, v)
           THEN /\ txw' = [txw EXCEPT ![p] = {}]
                /\ ActReturn(p, "unique")
           ELSE /\ ~ActiveIndexWait(p, k, v)
                /\ txw' = [txw EXCEPT ![p] =
                       {w \in txw[p] : RowId(w) # <<k, v>>} \cup
                       {[r EXCEPT !.isActive = TRUE, !.activatedAt = now] : r \in target}]
                /\ pc' = [pc EXCEPT ![p] = "act_commit"]
                /\ UNCHANGED <<actResult, kidx, ver, newAuc, testCount, results, cycleErr>>
        /\ UNCHANGED <<now, models, stmtRows, call, cycles, notReg>>

ActCommit(p) ==
    /\ pc[p] = "act_commit"
    /\ models' = Committed(p)
    /\ txw' = [txw EXCEPT ![p] = {}]
    /\ ActReturn(p, "ok")
    /\ UNCHANGED <<now, stmtRows, call, cycles, notReg>>

\* Begin, an Exec or Commit fails, or the process stops with the transaction
\* open (a crash between the clear and the set): the database rolls the
\* transaction back
TxAbort(p) ==
    /\ InActivate(p)
    /\ txw' = [txw EXCEPT ![p] = {}]
    /\ stmtRows' = [stmtRows EXCEPT ![p] = {}]
    /\ ActReturn(p, "error")
    /\ UNCHANGED <<now, models, call, cycles, notReg>>

-----------------------------------------------------------------------------
(* A registry client: InsertModelVersion and ActivateModel with any         *)
(* arguments                                                                *)

ClientMetrics == {EmptyText, MarshalMetrics(50)}

ClientInsert(p) ==
    /\ pc[p] = "idle"
    /\ \E k \in Keys, v \in 0..MaxVersion, active \in BOOLEAN, metrics \in ClientMetrics :
          /\ InsertOutcome(p, k, v, active) = "ok"
          /\ models' = models \cup
                {NewRow(k, v, metrics, active, IF active THEN now ELSE NullTime)}
    /\ UNCHANGED <<now, txVars, pc, cycleLocals, notReg>>

ClientActivate(p) ==
    /\ pc[p] = "idle"
    /\ \E k \in Keys, v \in 1..MaxVersion :
          call' = [call EXCEPT ![p] = [key |-> k, version |-> v]]
    /\ actResult' = [actResult EXCEPT ![p] = "none"]
    /\ pc' = [pc EXCEPT ![p] = "act_clear"]
    /\ UNCHANGED <<now, models, txw, stmtRows, cycleLocals, notReg>>

-----------------------------------------------------------------------------
(* inference Service.RunLatest and persistModelPrediction, one action per   *)
(* round trip to the stores                                                 *)

\* RunLatest returns: err is "none" or the error
InferReturn(err) == inf' = InfIdle(err)

\* the loop goes on with the next model key, or RunLatest returns
InferNext ==
    IF Len(inf.queue) > 1
    THEN inf' = [inf EXCEPT !.queue = Tail(inf.queue), !.pc = "upsert",
                            !.predId = NullId, !.signalId = NullId,
                            !.direction = DirectionHold, !.risk = 5]
    ELSE InferReturn("none")

\* loadLogReg, loadXGBoost, ListLatestByInterval and classicScore; the
\* classic score of the feature row is an input
InferStartUpTo(maxRuns) ==
    /\ inf.pc = "idle"
    /\ infRuns < maxRuns
    /\ infRuns' = infRuns + 1
    /\ \E dbok \in BOOLEAN, openTime \in OpenTimes, cs \in ClassicScores :
          LET log == GetActiveModel(ModelKeyLogReg)
              xgb == GetActiveModel(ModelKeyXGBoost)
              logVersion == IF log = {} THEN 0 ELSE (CHOOSE r \in log : TRUE).version
              xgbVersion == IF xgb = {} THEN 0 ELSE (CHOOSE r \in xgb : TRUE).version
          IN  IF ~dbok THEN InferReturn("db")
              ELSE IF log = {} /\ xgb = {} THEN InferReturn("none")
              ELSE /\ openTime <= now
                   /\ inf' = [pc |-> "upsert",
                              queue |-> (IF log = {} THEN <<>> ELSE <<ModelKeyLogReg>>) \o
                                        (IF xgb = {} THEN <<>> ELSE <<ModelKeyXGBoost>>) \o
                                        <<ModelKeyEnsembleV1>>,
                              openTime |-> openTime,
                              logProb |-> Half, xgbProb |-> Half,
                              classicScore |-> cs,
                              logVersion |-> logVersion, xgbVersion |-> xgbVersion,
                              predId |-> NullId, signalId |-> NullId,
                              direction |-> DirectionHold, risk |-> 5, err |-> "none"]
    /\ UNCHANGED <<now, preds, predSeq, signals, composites, mi, rs, notPred>>

InferStart == InferStartUpTo(MaxInferRuns)

\* inference cycles that come back to a feature row already predicted
InferStartAgain == InferStartUpTo(MaxRecomputeRuns)

\* ensembleScore, clamped to [-1, 1]
InferScore ==
    LET sc == Score(inf.classicScore, inf.logProb, inf.xgbProb)
    IN  IF sc > One THEN One ELSE IF sc < -One THEN -One ELSE sc

\* the prediction RunLatest persists for the model key at the head of the
\* queue; probUp is what the classifier gives for the feature row
InferPrediction(probUp) ==
    LET modelKey == Head(inf.queue)
        both == IF inf.logVersion > inf.xgbVersion THEN inf.logVersion ELSE inf.xgbVersion
    IN  IF modelKey = ModelKeyLogReg
        THEN Prediction(inf.openTime, modelKey, inf.logVersion, Clamp01(probUp),
                        inf.openTime + TargetTicks, 0)
        ELSE IF modelKey = ModelKeyXGBoost
        THEN Prediction(inf.openTime, modelKey, inf.xgbVersion, Clamp01(probUp),
                        inf.openTime + TargetTicks, 0)
        ELSE Prediction(inf.openTime, modelKey, IF both <= 0 THEN 1 ELSE both,
                        Clamp01((InferScore + One) \div 2),
                        inf.openTime + TargetTicks, InferScore)

\* the classifier's output, kept for the ensemble
InferKeep(prediction) ==
    IF prediction.modelKey = ModelKeyLogReg
    THEN [inf EXCEPT !.logProb = prediction.probUp]
    ELSE IF prediction.modelKey = ModelKeyXGBoost
    THEN [inf EXCEPT !.xgbProb = prediction.probUp]
    ELSE inf

\* persistModelPrediction: UpsertPrediction, then the direction check
InferUpsert ==
    /\ inf.pc = "upsert"
    /\ \E dbok \in BOOLEAN, probUp \in Probs :
          LET prediction == InferPrediction(probUp)
              pred == UpsertedRow(preds, prediction, predSeq + 1, now)
              kept == InferKeep(prediction)
          IN  IF ~dbok
              THEN /\ InferReturn("db")
                   /\ UNCHANGED <<preds, predSeq>>
              ELSE /\ preds' = UpsertPrediction(preds, prediction, predSeq + 1, now)
                   /\ predSeq' = predSeq + 1
                   /\ IF SignalWanted(prediction.direction)
                      THEN inf' = [kept EXCEPT !.pc = "signal", !.predId = pred.id,
                                               !.direction = prediction.direction,
                                               !.risk = prediction.risk]
                      ELSE IF Len(inf.queue) > 1
                      THEN inf' = [kept EXCEPT !.queue = Tail(inf.queue)]
                      ELSE InferReturn("none")
    /\ UNCHANGED <<now, signals, composites, infRuns, mi, rs, notPred>>

\* persistModelPrediction: InsertSignals
InferSignal ==
    /\ inf.pc = "signal"
    /\ \E dbok \in BOOLEAN :
          IF ~dbok
          THEN /\ InferReturn("db")
               /\ UNCHANGED signals
          ELSE LET g == Signal(indicatorForModelKey(Head(inf.queue)), inf.openTime,
                               inf.risk, inf.direction)
               IN  /\ signals' = InsertSignals(signals, g)
                   /\ inf' = [inf EXCEPT !.pc = "attach",
                                         !.signalId = InsertedSignal(signals, g).id]
    /\ UNCHANGED <<now, preds, predSeq, composites, infRuns, mi, rs, notPred>>

\* persistModelPrediction: AttachSignalID
InferAttach ==
    /\ inf.pc = "attach"
    /\ \E dbok \in BOOLEAN :
          IF ~dbok
          THEN /\ InferReturn("db")
               /\ UNCHANGED preds
          ELSE IF \A r \in preds : r.id # inf.predId
          THEN /\ InferReturn("ErrNoRows")
               /\ UNCHANGED preds
          ELSE /\ preds' = AttachSignalID(preds, inf.predId, inf.signalId)
               /\ InferNext
    /\ UNCHANGED <<now, predSeq, signals, composites, infRuns, mi, rs, notPred>>

-----------------------------------------------------------------------------
(* marketintel Service.RunCycle: the composite of one symbol and interval   *)

CompositeKept(rows, bucket) == {r \in rows : r.openTime # bucket}

\* UpsertCompositeSnapshot: signal_id is left as it is on conflict
UpsertCompositeSnapshot(rows, bucket, direction, risk) ==
    CompositeKept(rows, bucket) \cup
    {[openTime |-> bucket, direction |-> direction, risk |-> risk,
      signalId |-> IF \E r \in rows : r.openTime = bucket
                   THEN (CHOOSE r \in rows : r.openTime = bucket).signalId
                   ELSE NullId]}

\* BuildComposite and UpsertCompositeSnapshot, then the direction check
MiComposite ==
    /\ mi.pc = "idle"
    /\ \E dbok \in BOOLEAN, in \in CompositeInputs :
          LET direction == CompositeDirection(in[1])
              risk == CompositeRisk(in[1], in[2])
          IN  IF ~dbok
              THEN UNCHANGED <<composites, mi>>
              ELSE /\ composites' = UpsertCompositeSnapshot(composites, now, direction, risk)
                   /\ IF CompositeSignalWanted(direction)
                      THEN mi' = [pc |-> "signal", bucket |-> now, direction |-> direction,
                                  risk |-> risk, signalId |-> NullId]
                      ELSE mi' = MiIdle
    /\ UNCHANGED <<now, preds, predSeq, signals, inf, infRuns, rs, notPred>>

\* InsertSignals; an error is recorded and the loop goes on
MiSignal ==
    /\ mi.pc = "signal"
    /\ \E dbok \in BOOLEAN :
          IF ~dbok
          THEN /\ mi' = MiIdle
               /\ UNCHANGED signals
          ELSE LET g == Signal(IndicatorFundSentimentComposite, mi.bucket, mi.risk,
                               mi.direction)
               IN  /\ signals' = InsertSignals(signals, g)
                   /\ mi' = [mi EXCEPT !.pc = "attach",
                                       !.signalId = InsertedSignal(signals, g).id]
    /\ UNCHANGED <<now, preds, predSeq, composites, inf, infRuns, rs, notPred>>

\* AttachCompositeSignalID
MiAttach ==
    /\ mi.pc = "attach"
    /\ \E dbok \in BOOLEAN :
          /\ composites' = IF dbok
                           THEN {IF r.openTime = mi.bucket
                                 THEN [r EXCEPT !.signalId = mi.signalId] ELSE r :
                                    r \in composites}
                           ELSE composites
          /\ mi' = MiIdle
    /\ UNCHANGED <<now, preds, predSeq, signals, inf, infRuns, rs, notPred>>

-----------------------------------------------------------------------------
(* Callers of the predictions repository: the outcome resolver's two calls, *)
(* and UpsertPrediction with any prediction                                 *)

\* the predictions a caller may hand to UpsertPrediction
PredInputs ==
    {[Prediction(t, ModelKeyLogReg, 1, p, t + d, 0) EXCEPT !.details = txt] :
        t \in OpenTimes, p \in {Half}, d \in {TargetTicks, TargetTicks + 1},
        txt \in {EmptyText, InvalidText}}

RepoUpsert ==
    /\ predSeq < MaxPredSeq
    /\ \E prediction \in PredInputs :
          preds' = UpsertPrediction(preds, prediction, predSeq + 1, now)
    /\ predSeq' = predSeq + 1
    /\ UNCHANGED <<now, signals, composites, inf, infRuns, mi, rs, notPred>>

\* ListUnresolvedDue(now, limit)
ResolverList(c) ==
    /\ rs[c].pc = "idle"
    /\ \E todo \in ListUnresolvedDue(preds, now, MaxBatch) :
          /\ todo # <<>>
          /\ rs' = [rs EXCEPT ![c].pc = "resolve", ![c].todo = todo]
    /\ UNCHANGED <<now, preds, predSeq, signals, composites, inf, infRuns, mi, notPred>>

\* the next prediction of the list: its candles are missing and it is
\* skipped, or ResolvePrediction is called with the outcome
ResolverStep(c) ==
    /\ rs[c].pc = "resolve"
    /\ LET id == Head(rs[c].todo)
           rest == Tail(rs[c].todo)
           pcNext == IF rest = <<>> THEN "idle" ELSE "resolve"
       IN  \/ /\ rs' = [rs EXCEPT ![c].pc = pcNext, ![c].todo = rest]
              /\ UNCHANGED preds
           \/ \E o \in Outcomes :
                 /\ preds' = ResolvePrediction(preds, id, o, now)
                 /\ rs' = [rs EXCEPT
                       ![c].pc = pcNext, ![c].todo = rest,
                       ![c].wrote = IF ResolveResult(preds, id) = "ok"
                                    THEN @ \cup {id} ELSE @,
                       ![c].missed = IF ResolveResult(preds, id) = "ok"
                                     THEN @ ELSE @ \cup {id}]
    /\ UNCHANGED <<now, predSeq, signals, composites, inf, infRuns, mi, notPred>>

\* the candles of the one symbol and interval the predictions are made for
candleAt(t) ==
    {r \in candleRows : r.symbol = "BTC" /\ r.interval = "1h" /\ r.openTime = t}

HasCandles(p) == candleAt(p.openTime) # {} /\ candleAt(p.targetTime) # {}

\* actualUp, isCorrect and realizedReturn (in ten-thousandths) from the closes
OutcomeOf(p) ==
    LET closeOpen == (CHOOSE r \in candleAt(p.openTime) : TRUE).close
        closeTarget == (CHOOSE r \in candleAt(p.targetTime) : TRUE).close
        actualUp == closeTarget > closeOpen
    IN  [actualUp |-> actualUp,
         isCorrect |-> IF p.direction = DirectionHold
                       THEN actualUp = (p.probUp >= Half)
                       ELSE actualUp = (p.direction = DirectionLong),
         realizedReturn |-> IF closeTarget >= closeOpen
                            THEN ((closeTarget - closeOpen) * One) \div closeOpen
                            ELSE -(((closeOpen - closeTarget) * One) \div closeOpen)]

\* the same step with the candles looked up in the candle table: the
\* prediction is skipped when one of its two candles is missing
ResolverStepCandles(c) ==
    /\ rs[c].pc = "resolve"
    /\ LET id == Head(rs[c].todo)
           rest == Tail(rs[c].todo)
           pcNext == IF rest = <<>> THEN "idle" ELSE "resolve"
           p == CHOOSE r \in preds : r.id = id
       IN  IF ~HasCandles(p)
           THEN /\ rs' = [rs EXCEPT ![c].pc = pcNext, ![c].todo = rest]
                /\ UNCHANGED preds
           ELSE /\ preds' = ResolvePrediction(preds, id, OutcomeOf(p), now)
                /\ rs' = [rs EXCEPT
                      ![c].pc = pcNext, ![c].todo = rest,
                      ![c].wrote = IF ResolveResult(preds, id) = "ok"
                                   THEN @ \cup {id} ELSE @,
                      ![c].missed = IF ResolveResult(preds, id) = "ok"
                                    THEN @ ELSE @ \cup {id}]
    /\ UNCHANGED <<now, predSeq, signals, composites, inf, infRuns, mi, notPred>>

\* time passes
Tick ==
    /\ now < MaxNow
    /\ now' = now + 1
    /\ UNCHANGED <<regVars, predVars, limVars, priceVars, pollVars, auxVars>>

-----------------------------------------------------------------------------
(* RateLimiter: Wait and refill *)

\* refill without the cap at maxTokens
refillNoCap(tok, last) ==
    LET elapsed == now - last
        newTokens == elapsed \div refillInterval
    IN  IF newTokens > 0
        THEN [tokens |-> tok + newTokens, lastRefill |-> last + newTokens * refillInterval]
        ELSE [tokens |-> tok, lastRefill |-> last]

\* refill: the fields after the call
refill(tok, last) ==
    LET elapsed == now - last
        newTokens == elapsed \div refillInterval
        added == tok + newTokens
    IN  IF newTokens > 0
        THEN [tokens |-> IF added > maxTokens THEN maxTokens ELSE added,
              lastRefill |-> last + newTokens * refillInterval]
        ELSE [tokens |-> tok, lastRefill |-> last]

\* a goroutine calls Wait; its context may be cancelled already
WaitCall(c) ==
    /\ lpc[c] = "idle"
    /\ lpc' = [lpc EXCEPT ![c] = "try"]
    /\ waitRes' = [waitRes EXCEPT ![c] = "none"]
    /\ emptySince' = [emptySince EXCEPT ![c] = NullTime]
    /\ \E done \in BOOLEAN : ctxDone' = [ctxDone EXCEPT ![c] = done]
    /\ UNCHANGED <<now, tokens, maxTokens, refillInterval, lastRefill, wakeAt, grants,
                   minted, notLim>>

\* r.tokens--, were the count left as it is
TakeTokenShared(tok) == tok

\* r.tokens--
TakeToken(tok) == tok - 1

\* the select, were it without the ctx.Done() case
SelectTimerOnly(done) == "sleep"

\* the select when it is entered: ctx.Done() is ready when the context was
\* cancelled before, the timer just made is not; else the goroutine blocks
Select(done) == IF done THEN "cancelled" ELSE "sleep"

\* one pass of the loop under the mutex: refill, then take a token and return
\* nil, or unlock and go to the select
\* counted: the pass is entered in minted, grants and emptySince, which
\* record the history of the limiter and are no fields of it
WaitPass(c, counted) ==
    LET r == refill(tokens, lastRefill)
    IN  /\ lpc[c] = "try"
        /\ lastRefill' = r.lastRefill
        /\ minted' = IF counted THEN minted + (r.tokens - tokens) ELSE minted
        /\ IF r.tokens > 0
           THEN /\ tokens' = TakeToken(r.tokens)
                /\ lpc' = [lpc EXCEPT ![c] = "idle"]
                /\ waitRes' = [waitRes EXCEPT ![c] = "ok"]
                /\ grants' = IF counted THEN [grants EXCEPT ![now] = @ + 1] ELSE grants
                /\ UNCHANGED <<wakeAt, emptySince>>
           ELSE /\ tokens' = r.tokens
                /\ lpc' = [lpc EXCEPT ![c] = Select(ctxDone[c])]
                /\ wakeAt' = [wakeAt EXCEPT ![c] = now + refillInterval]
                /\ emptySince' = IF counted THEN [emptySince EXCEPT ![c] = r.lastRefill]
                                 ELSE emptySince
                /\ UNCHANGED <<waitRes, grants>>
        /\ UNCHANGED <<now, maxTokens, refillInterval, ctxDone, notLim>>

WaitTry(c) == WaitPass(c, TRUE)

\* the same pass in runs without end, where the history is not kept
WaitTryOn(c) == WaitPass(c, FALSE)

\* select: case <-ctx.Done(): return ctx.Err()
WaitCancelled(c) ==
    /\ lpc[c] = "cancelled"
    /\ lpc' = [lpc EXCEPT ![c] = "idle"]
    /\ waitRes' = [waitRes EXCEPT ![c] = "ctx"]
    /\ UNCHANGED <<now, tokens, maxTokens, refillInterval, lastRefill, wakeAt, ctxDone,
                   grants, minted, emptySince, notLim>>

\* the timer has fired and the goroutine stays in the select
WaitWakeStays(c) ==
    /\ lpc[c] = "sleep"
    /\ now >= wakeAt[c]
    /\ UNCHANGED vars

\* select: case <-time.After(r.refillInterval): the timer has fired, the
\* loop goes round
WaitWake(c) ==
    /\ lpc[c] = "sleep"
    /\ now >= wakeAt[c]
    /\ lpc' = [lpc EXCEPT ![c] = "try"]
    /\ UNCHANGED <<now, tokens, maxTokens, refillInterval, lastRefill, wakeAt, ctxDone,
                   waitRes, grants, minted, emptySince, notLim>>

\* the caller's context is cancelled while it is in Wait; a select that is
\* blocked with its timer still running takes the ctx.Done() case
CtxCancel(c) ==
    /\ lpc[c] # "idle"
    /\ ~ctxDone[c]
    /\ ctxDone' = [ctxDone EXCEPT ![c] = TRUE]
    /\ lpc' = [lpc EXCEPT ![c] = IF lpc[c] = "sleep" /\ now < wakeAt[c]
                                 THEN Select(TRUE) ELSE @]
    /\ UNCHANGED <<now, tokens, maxTokens, refillInterval, lastRefill, wakeAt,
                   waitRes, grants, minted, emptySince, notLim>>

LimTick ==
    /\ now < MaxTime
    /\ now' = now + 1
    /\ UNCHANGED <<regVars, predVars, limVars, priceVars, pollVars, auxVars>>

\* time passes in a run without end: the clock is read relative to the
\* present, so one unit more of time.Now() is one unit less of every time
\* kept. A timer that is due stays due, and a lastRefill more than
\* (maxTokens + 1) intervals back is moved up by one interval: refill fills
\* the bucket from either and leaves the same remainder.
LimElapse ==
    LET lag == (now - lastRefill) + 1
    IN  /\ lastRefill' = IF lag > (maxTokens + 1) * refillInterval
                         THEN now - (lag - refillInterval)
                         ELSE now - lag
        /\ wakeAt' = [c \in Callers |-> IF wakeAt[c] > now THEN wakeAt[c] - 1 ELSE wakeAt[c]]
        /\ UNCHANGED <<now, tokens, maxTokens, refillInterval, lpc, ctxDone, waitRes,
                       grants, minted, emptySince, notLim>>

-----------------------------------------------------------------------------
(* Specifications *)

ActivateSteps(p) ==
    \/ ActClear(p)
    \/ ActClearResume(p)
    \/ ActSet(p)
    \/ ActCommit(p)
    \/ TxAbort(p)

CycleSteps(p) ==
    \/ CycleStart(p)
    \/ CyclePrepare(p)
    \/ CycleInsert(p)
    \/ CycleDecide(p)

\* overlapping training cycles: the scheduled job and the manual trigger
NextTraining ==
    \E p \in Cyclers : CycleSteps(p) \/ ActivateSteps(p)

SpecTraining == Init /\ [][NextTraining]_vars

\* the scheduled job's training cycles and an operator who promotes by hand
NextOps ==
    \/ CycleSteps("job") \/ ActivateSteps("job")
    \/ ClientActivate("op") \/ ActivateSteps("op")
    \/ Tick

SpecOps == Init /\ [][NextOps]_vars

\* registry clients calling InsertModelVersion and ActivateModel at will
NextRegistry ==
    \E p \in Clients : ClientInsert(p) \/ ClientActivate(p) \/ ActivateSteps(p)

SpecRegistry == Init /\ [][NextRegistry]_vars

\* the registry a training cycle leaves: version 1 of each key in ks, active
TrainedRegistry(ks) ==
    {NewRow(k, 1, MarshalMetrics(50), TRUE, 0) : k \in ks}

\* the state once training cycles have run: one, both or neither of the
\* classifiers has an active version
InitTrained ==
    /\ now = 0
    /\ \E ks \in SUBSET Keys : RegInitWith(TrainedRegistry(ks))
    /\ PredInit
    /\ PriceInit
    /\ PollInit
    /\ AuxInit
    /\ NewRateLimiter(1, 1)

\* the boosted trees have no active version (their training failed)
InitLogRegOnly ==
    /\ now = 0
    /\ RegInitWith(TrainedRegistry({ModelKeyLogReg}))
    /\ PredInit
    /\ PriceInit
    /\ PollInit
    /\ AuxInit
    /\ NewRateLimiter(1, 1)

InferSteps == InferStart \/ InferUpsert \/ InferSignal \/ InferAttach

\* the registry a build finds: the active version of a key was trained by
\* this build or by an earlier one with another feature layout
InitDeployed ==
    /\ now = 0
    /\ \E specOf \in [Keys -> FeatureSpecs], ks \in SUBSET Keys :
          RegInitWith({[r EXCEPT !.featureSpec = specOf[r.key]] : r \in TrainedRegistry(ks)})
    /\ PredInit
    /\ PriceInit
    /\ PollInit
    /\ AuxInit
    /\ NewRateLimiter(1, 1)

\* the inference cycle on the registry the build finds
NextInference == InferSteps

SpecInference == InitDeployed /\ [][NextInference]_vars

\* the inference cycle and the market-intel cycle writing signals
NextSignals ==
    \/ InferSteps
    \/ MiComposite \/ MiSignal \/ MiAttach

SpecSignals == InitTrained /\ [][NextSignals]_vars

\* inference cycles and market-intel cycles that compute the same feature row
\* and the same bucket again
NextRecompute ==
    \/ InferStartAgain \/ InferUpsert \/ InferSignal \/ InferAttach
    \/ MiComposite \/ MiSignal \/ MiAttach

SpecRecompute == InitLogRegOnly /\ [][NextRecompute]_vars

\* the inference cycle, other callers of UpsertPrediction and two outcome
\* resolvers
NextPredictions ==
    \/ InferSteps
    \/ RepoUpsert
    \/ \E c \in Resolvers : ResolverList(c) \/ ResolverStep(c)
    \/ Tick

SpecPredictions == InitLogRegOnly /\ [][NextPredictions]_vars

\* callers of the price service while time passes
InitPrices ==
    /\ now = 0
    /\ RegInit
    /\ PredInit
    /\ PriceInit
    /\ PollInit
    /\ AuxInit
    /\ NewRateLimiter(1, 1)

NextPrices == PriceGet \/ PriceGetAll \/ PriceRefresh \/ PriceTick

SpecPrices == InitPrices /\ [][NextPrices]_vars

\* the three tiers of the poller
NextPoller ==
    \/ \E t \in Tiers :
          PollDelayOver(t) \/ PollFirst(t) \/ TickerFire(t) \/ PollNext(t) \/ PollStop(t)
    \/ StartReturn
    \/ PollCancel

SpecPoller == InitPrices /\ [][NextPoller]_vars

\* every goroutine of the poller is scheduled again and again
FairPoller ==
    /\ \A t \in Tiers : WF_vars(PollFirst(t)) /\ WF_vars(PollStop(t))
    /\ WF_vars(StartReturn)

SpecPollerFair == SpecPoller /\ FairPoller

\* the state the other parts are in while one part is followed
CoreInit ==
    /\ now = 0
    /\ RegInit
    /\ PredInit
    /\ PriceInit
    /\ PollInit
    /\ NewRateLimiter(1, 1)

\* the three runners, each built with or without its service
InitJobs ==
    /\ CoreInit
    /\ \E svc \in [Jobs -> BOOLEAN] : JobInitWith(svc)
    /\ FnIdle
    /\ RcIdle
    /\ CandleInit
    /\ ItemInit

NextJobs ==
    \/ \E j \in Jobs :
          JobDisabled(j) \/ JobFirst(j) \/ JobTicker(j) \/ JobNext(j) \/ JobStop(j)
    \/ JobCancel

SpecJobs == InitJobs /\ [][NextJobs]_vars

\* BuildComposite on every combination of components
InitComposite ==
    /\ CoreInit
    /\ JobIdle
    /\ fnArg \in ComponentInputs
    /\ fnRet = NoRet
    /\ RcIdle
    /\ CandleInit
    /\ ItemInit

NextComposite == ApplyBuildComposite

SpecComposite == InitComposite /\ [][NextComposite]_vars

\* one market-intel cycle under every configuration
InitRunCycle ==
    /\ CoreInit
    /\ JobIdle
    /\ FnIdle
    /\ \E repoNil \in BOOLEAN, signalStore \in BOOLEAN, intervals \in IntervalConfigs,
          enableOnChain \in BOOLEAN, t \in RcNows :
          RcInitWith(repoNil, signalStore, intervals, enableOnChain, t)
    /\ CandleInit
    /\ ItemInit

NextRunCycle ==
    \/ RcFetch \/ RcUpsertItems \/ RcItemSymbols \/ RcList \/ RcScore \/ RcOnChain
    \/ RcComposite \/ RcSignal \/ RcAttach \/ RcRetention

SpecRunCycle == InitRunCycle /\ [][NextRunCycle]_vars

\* calls of UpsertCandles with every batch
InitCandles == CoreInit /\ AuxInit

NextCandles == CandleUpsert

SpecCandles == InitCandles /\ [][NextCandles]_vars

\* buildCandlesFromMarketChart on every short price series
InitCandleChart ==
    /\ CoreInit
    /\ JobIdle
    /\ RcIdle
    /\ CandleInit
    /\ ItemInit
    /\ fnArg \in [fn : {"buildCandlesFromMarketChart"}, symbol : {"BTC"},
                   interval : ChartIntervals, prices : PriceSeries,
                   volumes : VolumeSeries]
    /\ fnRet = NoRet

NextCandleChart == ApplyBuildCandles

SpecCandleChart == InitCandleChart /\ [][NextCandleChart]_vars

\* BuildRows on candle histories with and without gaps
InitBuildRows ==
    /\ CoreInit
    /\ JobIdle
    /\ RcIdle
    /\ CandleInit
    /\ ItemInit
    /\ \E tail \in TailChoices, th \in TargetHoursInputs :
          fnArg = [fn |-> "BuildRows", candles |-> History(tail), targetHours |-> th]
    /\ fnRet = NoRet

NextBuildRows == ApplyBuildRows

SpecBuildRows == InitBuildRows /\ [][NextBuildRows]_vars

\* chronologicalSplit on datasets of every size up to MaxRows
InitSplit ==
    /\ CoreInit
    /\ JobIdle
    /\ RcIdle
    /\ CandleInit
    /\ ItemInit
    /\ \E rows \in Datasets : fnArg = [fn |-> "chronologicalSplit", rows |-> rows]
    /\ fnRet = NoRet

NextSplit == ApplySplit

SpecSplit == InitSplit /\ [][NextSplit]_vars

\* TrainAll on datasets of every size up to MaxRows
InitTrainAll ==
    /\ CoreInit
    /\ JobIdle
    /\ RcIdle
    /\ CandleInit
    /\ ItemInit
    /\ \E rows \in Datasets, minTrainSamples \in MinTrainSamplesInputs, trains \in BOOLEAN :
          fnArg = [fn |-> "TrainAll", rows |-> rows,
                   minTrainSamples |-> minTrainSamples, trains |-> trains]
    /\ fnRet = NoRet

NextTrainAll == ApplyTrainAll

SpecTrainAll == InitTrainAll /\ [][NextTrainAll]_vars

\* ExtractSymbolsFromContent on items of every source
InitExtract ==
    /\ CoreInit
    /\ JobIdle
    /\ RcIdle
    /\ CandleInit
    /\ ItemInit
    /\ \E source \in ContentSources, title \in ContentTitles, excerpt \in ContentExcerpts :
          \/ fnArg = [fn |-> "ExtractSymbolsFromContent", source |-> source,
                      title |-> title, excerpt |-> excerpt,
                      hasSubreddit |-> FALSE, subreddit |-> <<>>]
          \/ \E subreddit \in ContentSubreddits :
                fnArg = [fn |-> "ExtractSymbolsFromContent", source |-> source,
                         title |-> title, excerpt |-> excerpt,
                         hasSubreddit |-> TRUE, subreddit |-> subreddit]
    /\ fnRet = NoRet

NextExtract == ApplyExtractSymbols

SpecExtract == InitExtract /\ [][NextExtract]_vars

\* Scorer.Score without and with an LLM scorer whose batches may fail
InitScore ==
    /\ CoreInit
    /\ JobIdle
    /\ RcIdle
    /\ CandleInit
    /\ ItemInit
    /\ \E items \in ItemLists, batchSize \in {0, 1, 2} :
          \/ fnArg = [fn |-> "Score", items |-> items, hasLLM |-> FALSE,
                      batchSize |-> batchSize, answers |-> <<>>]
          \/ \E answers \in [1..BatchOf(NewScorer(TRUE, batchSize), Len(items)) -> Answers] :
                /\ items # <<>>
                /\ fnArg = [fn |-> "Score", items |-> items, hasLLM |-> TRUE,
                            batchSize |-> batchSize, answers |-> answers]
    /\ fnRet = NoRet

NextScore == ApplyScore

SpecScore == InitScore /\ [][NextScore]_vars

\* the ensemble step with each classifier deployed or absent
InitEnsemble ==
    /\ CoreInit
    /\ JobIdle
    /\ RcIdle
    /\ CandleInit
    /\ ItemInit
    /\ \E classic \in EnsembleClassic, hasLog \in BOOLEAN, hasXgb \in BOOLEAN :
          \E log \in IF hasLog THEN EnsembleProbs ELSE {0},
             xgb \in IF hasXgb THEN EnsembleProbs ELSE {0} :
                fnArg = [fn |-> "ensemble", classic |-> classic, hasLog |-> hasLog,
                         log |-> log, hasXgb |-> hasXgb, xgb |-> xgb]
    /\ fnRet = NoRet

NextEnsemble == ApplyEnsemble

SpecEnsemble == InitEnsemble /\ [][NextEnsemble]_vars

\* the outcome resolver cycling over a table of due predictions: those of
\* open time 0 are the older ones, and the candle of any hour may be missing
DuePredictions ==
    <<Prediction(0, ModelKeyLogReg, 1, 8000, TargetTicks, 0),
      Prediction(0, ModelKeyXGBoost, 1, 2000, TargetTicks, 0),
      Prediction(0, ModelKeyEnsembleV1, 1, 5000, TargetTicks, 0),
      Prediction(1, ModelKeyLogReg, 1, 8000, 1 + TargetTicks, 0)>>

InitResolver ==
    /\ now = 1 + TargetTicks
    /\ RegInit
    /\ PriceInit
    /\ PollInit
    /\ NewRateLimiter(1, 1)
    /\ JobIdle
    /\ FnIdle
    /\ RcIdle
    /\ \E n \in 1..Len(DuePredictions) :
          /\ preds = {InsertedRow(DuePredictions[i], i - (Len(DuePredictions) - n), 0) :
                         i \in (Len(DuePredictions) - n + 1)..Len(DuePredictions)}
          /\ predSeq = n
    /\ signals = {}
    /\ composites = {}
    /\ inf = InfIdle("none")
    /\ infRuns = 0
    /\ mi = MiIdle
    /\ rs = [c \in Resolvers |-> [pc |-> "idle", todo |-> <<>>, wrote |-> {}, missed |-> {}]]
    /\ \E hours \in SUBSET (0..(1 + TargetTicks)), close \in [0..(1 + TargetTicks) -> {1, 2}] :
          candleRows = {Candle(<<"BTC", "1h", h>>, <<1, 2, 1, close[h], 5>>) : h \in hours}
    /\ candleLast = [k \in CandleKeys |-> <<>>]
    /\ candleCall = NoCandleCall
    /\ ItemInit

NextResolver == \E c \in Resolvers : ResolverList(c) \/ ResolverStepCandles(c)

\* the resolver job goes on cycling, and a cycle that has begun is finished
FairResolver ==
    \A c \in Resolvers : WF_vars(ResolverList(c)) /\ WF_vars(ResolverStepCandles(c))

SpecResolver == InitResolver /\ [][NextResolver]_vars /\ FairResolver

\* the scheduled market-intel job and the manual trigger, ingesting and
\* scoring items while time passes
InitSentiment ==
    /\ CoreInit
    /\ AuxInit

NextSentiment ==
    \/ \E c \in Cyclers : ScIngest(c) \/ ScList(c) \/ ScScore(c) \/ ScUpdate(c)
    \/ Tick

SpecSentiment == InitSentiment /\ [][NextSentiment]_vars

\* goroutines sharing one rate limiter
NextLimiter ==
    \/ \E c \in Callers :
          WaitCall(c) \/ WaitTry(c) \/ WaitCancelled(c) \/ WaitWake(c) \/ CtxCancel(c)
    \/ LimTick

SpecLimiter == InitLimiter /\ [][NextLimiter]_vars

\* the same goroutines in runs without end: time advances and every
\* goroutine in Wait is scheduled again and again; nobody has to call Wait
NextLimiterOn ==
    \/ \E c \in Callers :
          WaitCall(c) \/ WaitTryOn(c) \/ WaitCancelled(c) \/ WaitWake(c) \/ CtxCancel(c)
    \/ LimElapse

FairLimiter ==
    /\ WF_vars(LimElapse)
    /\ \A c \in Callers :
          WF_vars(WaitTryOn(c)) /\ WF_vars(WaitWake(c)) /\ WF_vars(WaitCancelled(c))

SpecLimiterFair == InitLimiter /\ [][NextLimiterOn]_vars /\ FairLimiter

-----------------------------------------------------------------------------
(* Properties of the registry *)

ActiveRows(rows, modelKey) == {r \in rows : r.key = modelKey /\ r.isActive}

\* C1: for every model key, in every reachable state of the registry, at
\* most one stored version has isActive = true, whatever the interleaving of
\* InsertModelVersion and ActivateModel calls and wherever a transaction is
\* cut off
C1_OneActivePerKey ==
    \A k \in Keys : Cardinality(ActiveRows(models, k)) <= 1

\* two ActivateModel transactions on one key, for different versions: one is
\* about to commit, the other waits for its row locks, a version is active
C1_Witness ==
    \E p, q \in Clients :
        /\ pc[p] = "act_commit" /\ pc[q] = "act_clear_wait"
        /\ call[p].key = call[q].key /\ call[p].version # call[q].version
        /\ ActiveRows(models, call[p].key) # {}

Stored(modelKey, version) ==
    \E r \in models : r.key = modelKey /\ r.version = version

\* C7: ActivateModel for a version that is not stored under the key returns
\* an error, and no step of the call changes the active rows of the key
C7_MissingVersion ==
    [][\A p \in Clients :
          (InActivate(p) /\ pc'[p] # pc[p] /\ ~Stored(call[p].key, call[p].version))
          => /\ ActiveRows(models', call[p].key) = ActiveRows(models, call[p].key)
             /\ pc'[p] # "act_commit"
             /\ pc[p] = "act_set" => pc'[p] = "idle"
             /\ pc'[p] = "idle" => actResult'[p] \in {"ErrNoRows", "error"}]_vars

\* the call has returned pgx.ErrNoRows: the version is not stored and the
\* version that was active is still active
C7_Witness ==
    \E p \in Clients :
        /\ pc[p] = "idle" /\ actResult[p] = "ErrNoRows"
        /\ ~Stored(call[p].key, call[p].version)
        /\ ActiveRows(models, call[p].key) # {}

-----------------------------------------------------------------------------
(* Properties of the rate limiter *)

RECURSIVE GrantsIn(_, _)
\* the Wait calls that returned nil at the instants a..b
GrantsIn(a, b) == IF a > b THEN 0 ELSE grants[a] + GrantsIn(a + 1, b)

CeilDiv(x, y) == (x + y - 1) \div y

\* C4: over every window of length W = b - a, the Wait calls that return nil
\* number at most ceil(W / refillInterval) + maxTokens
C4_RateLimitBudget ==
    \A a, b \in 0..MaxTime :
        a <= b => GrantsIn(a, b) <= CeilDiv(b - a, refillInterval) + maxTokens

\* a window of positive length whose budget is used up, a caller asleep
C4_Witness ==
    /\ \E a, b \in 0..MaxTime :
          /\ a < b
          /\ GrantsIn(a, b) = CeilDiv(b - a, refillInterval) + maxTokens
    /\ \E c \in Callers : lpc[c] = "sleep"

-----------------------------------------------------------------------------
(* Properties of the training cycle *)

\* the AUC stored with a model version
StoredAUC(r) == metricValue(r.metrics, "auc")[1]

\* a training cycle's ActivateModel commits
Promotes(p) == pc[p] = "act_commit" /\ actResult'[p] = "ok"

\* C2: whenever a training cycle promotes its new version of a key, no
\* version of the key was active just before, or the new version's test AUC
\* is at least the AUC of the version active just before plus 0.01
C2_PromotionMonotone ==
    [][\A p \in Cyclers :
          Promotes(p) =>
             \A r \in ActiveRows(models, CurKey(p)) :
                 newAuc[p] >= StoredAUC(r) + PromoteMargin]_vars

PromotionPCs == {"decide", "act_clear", "act_clear_wait", "act_set", "act_commit"}

\* the step that ends the promotion part of persistAndMaybePromote
PromotionEnds(p) == pc[p] \in PromotionPCs /\ pc'[p] \notin PromotionPCs

\* the last result of the cycle after the step
LastResult(p) == results'[p][Len(results'[p])]

\* C8: the new version is inserted, inactive, before the promotion decision;
\* a failure of the decision or of ActivateModel is recorded in the model's
\* result (PromoteError set, Promoted false) and does not fail the cycle:
\* the inserted row stays, the active rows stay, the cycle goes on with the
\* second classifier, and a cycle that returns its results has stored the
\* version of every result
C8_PromotionFailureNotFatal ==
    /\ [](\A p \in Cyclers :
            /\ pc[p] = "decide" => Stored(CurKey(p), ver[p])
            /\ InActivate(p) => Stored(CurKey(p), ver[p])
            /\ (pc[p] = "idle" /\ cycleErr[p] = "none") =>
                  \A i \in 1..Len(results[p]) :
                      Stored(results[p][i].modelKey, results[p][i].version))
    /\ [][\A p \in Cyclers :
            /\ (pc[p] = "insert" /\ pc'[p] = "decide") =>
                  \E r \in models' \ models :
                      r.key = CurKey(p) /\ r.version = ver[p] /\ ~r.isActive
            /\ PromotionEnds(p) =>
                  /\ cycleErr'[p] = "none"
                  /\ Len(results'[p]) = Len(results[p]) + 1
                  /\ LastResult(p).modelKey = CurKey(p)
                  /\ LastResult(p).version = ver[p]
                  /\ (InActivate(p) /\ actResult'[p] # "ok") =>
                        LastResult(p).promoteError # "none"
                  /\ LastResult(p).promoteError # "none" =>
                        (~LastResult(p).promoted /\ models' = models)
                  /\ \E r \in models' : r.key = CurKey(p) /\ r.version = ver[p]
                  /\ kidx[p] = 1 => (pc'[p] = "prepare" /\ kidx'[p] = 2)
                  /\ kidx[p] = 2 => (pc'[p] = "idle" /\ Len(results'[p]) = 2)]_vars

\* a cycle has returned two results, the first with a promotion failure;
\* both versions are stored and an earlier version of the first key is active
C8_Witness ==
    \E p \in Cyclers :
        /\ pc[p] = "idle" /\ cycleErr[p] = "none" /\ Len(results[p]) = 2
        /\ results[p][1].promoteError # "none"
        /\ Stored(results[p][1].modelKey, results[p][1].version)
        /\ Stored(results[p][2].modelKey, results[p][2].version)
        /\ \E r \in ActiveRows(models, results[p][1].modelKey) :
              r.version < results[p][1].version

\* C9: if at the promotion decision the new version is already the active
\* version of its key, the cycle does not call ActivateModel
C9_PromotionIdempotent ==
    [][\A p \in Cyclers :
          (pc[p] = "decide" /\
           \E r \in GetActiveModel(CurKey(p)) : r.version = ver[p])
          => pc'[p] # "act_clear"]_vars

\* C10: NextVersion is 1 for a key without versions and the greatest stored
\* version plus 1 otherwise, no two stored rows share (modelKey, version),
\* and the insertion of a cycle is never refused as a duplicate version
C10_VersionsUnique ==
    /\ [](/\ \A k \in Keys :
               NextVersion(k) = IF \E r \in models : r.key = k
                                THEN MaxOf({r.version : r \in {m \in models : m.key = k}}) + 1
                                ELSE 1
          /\ \A r1, r2 \in models : RowId(r1) = RowId(r2) => r1 = r2)
    /\ [][\A p \in Cyclers :
            (pc[p] = "insert" /\ pc'[p] # "insert") => cycleErr'[p] # "unique"]_vars

-----------------------------------------------------------------------------
(* Properties of the predictions and the signals *)

Resolution(r) == <<r.resolvedAt, r.actualUp, r.isCorrect, r.realizedReturn>>

\* a resolver's step that calls ResolvePrediction
Resolves(c) ==
    /\ rs[c].pc = "resolve"
    /\ <<rs'[c].wrote, rs'[c].missed>> # <<rs[c].wrote, rs[c].missed>>

\* C3: once resolvedAt of a prediction is set, no later step changes its
\* resolvedAt, actualUp, isCorrect or realizedReturn, and a ResolvePrediction
\* for it reports that no row was updated; of the resolvers that call
\* ResolvePrediction for one prediction, exactly one writes the outcome
C3_ResolveOnce ==
    /\ [](\A id \in 1..predSeq :
            /\ Cardinality({c \in Resolvers : id \in rs[c].wrote}) <= 1
            /\ \A c \in Resolvers :
                  id \in rs[c].missed =>
                     \E c2 \in Resolvers \ {c} : id \in rs[c2].wrote)
    /\ [][/\ \A r \in preds :
               r.resolvedAt # NullTime =>
                  \E r2 \in preds' : r2.id = r.id /\ Resolution(r2) = Resolution(r)
          /\ \A c \in Resolvers :
               Resolves(c) =>
                  LET id == Head(rs[c].todo)
                  IN  IF \E r \in preds : r.id = id /\ r.resolvedAt # NullTime
                      THEN /\ preds' = preds
                           /\ rs'[c].missed = rs[c].missed \cup {id}
                           /\ rs'[c].wrote = rs[c].wrote
                      ELSE /\ \E r \in preds' : r.id = id /\ r.resolvedAt = now
                           /\ rs'[c].wrote = rs[c].wrote \cup {id}
                           /\ rs'[c].missed = rs[c].missed]_vars

\* both resolvers listed one prediction and called ResolvePrediction for it:
\* one wrote the outcome, the other was told that no row was updated
C3_Witness ==
    \E id \in 1..predSeq, c1, c2 \in Resolvers :
        /\ id \in rs[c1].wrote /\ id \in rs[c2].missed
        /\ \E r \in preds : r.id = id /\ r.resolvedAt # NullTime

\* C5: no signal with direction hold is persisted: the inference cycle and
\* the market-intel cycle call InsertSignals only for a direction long or
\* short, and the signal store holds no hold signal
C5_NoHoldSignal ==
    /\ \A g \in signals : g.direction \in {DirectionLong, DirectionShort}
    /\ inf.pc = "signal" => inf.direction \in {DirectionLong, DirectionShort}
    /\ mi.pc = "signal" => mi.direction \in {DirectionLong, DirectionShort}

\* a prediction and a composite with direction hold are stored, and both
\* cycles have written signals
C5_Witness ==
    /\ \E r \in preds : r.direction = DirectionHold
    /\ \E r \in composites : r.direction = DirectionHold
    /\ \E g \in signals : g.indicator = IndicatorFundSentimentComposite
    /\ \E g \in signals : g.indicator # IndicatorFundSentimentComposite

\* what UpsertPrediction leaves alone in a stored row
UpsertFrame(r) == <<r.id, r.signalId, r.createdAt, Resolution(r)>>

\* the predictions the inference cycle and other callers hand to
\* UpsertPrediction
AllPredInputs ==
    PredInputs \cup
    {Prediction(t, k, 1, p, t + TargetTicks, 0) :
        t \in OpenTimes, k \in {ModelKeyLogReg, ModelKeyEnsembleV1}, p \in Probs}

\* C6: UpsertPrediction on a stored key keeps the row's id and resolution
\* state (and signal id and creation time) and changes no other row;
\* applying one upsert twice leaves the rows of applying it once; there is
\* never more than one row per key
C6_UpsertFrame ==
    /\ [](/\ \A r1, r2 \in preds :
               (PredKey(r1) = PredKey(r2) \/ r1.id = r2.id) => r1 = r2
          /\ \A prediction \in AllPredInputs :
               LET once == UpsertPrediction(preds, prediction, predSeq + 1, now)
               IN  UpsertPrediction(once, prediction, predSeq + 2, now + 1) = once)
    /\ [][predSeq' = predSeq + 1 =>
            /\ \A r \in preds :
                  \E r2 \in preds' :
                      PredKey(r2) = PredKey(r) /\ UpsertFrame(r2) = UpsertFrame(r)
            /\ Cardinality(preds' \ preds) <= 1
            /\ Cardinality(preds') <= Cardinality(preds) + 1]_vars

\* a prediction that has its signal and its outcome has been upserted again:
\* its details and target time are those of the later upsert
C6_Witness ==
    \E r \in preds :
        /\ r.signalId # NullId /\ r.resolvedAt # NullTime
        /\ r.details = JSONText({<<"raw", 0>>})
        /\ r.targetTime = r.openTime + TargetTicks + 1
        /\ r.id < predSeq

-----------------------------------------------------------------------------
(* Properties of the inference cycle *)

\* the stored prediction persistModelPrediction is working on
InferStored(rows) ==
    {r \in rows : /\ r.id = inf.predId
                  /\ r.modelKey = Head(inf.queue)
                  /\ r.openTime = inf.openTime}

ValidPrediction(r) ==
    /\ r.probUp \in 0..One
    /\ r.confidence \in 0..One
    /\ r.direction \in {DirectionLong, DirectionShort, DirectionHold}

C12_FeatureSpecChecked ==
    \A r \in preds :
        r.modelKey \in Keys =>
            \E m \in models : /\ m.key = r.modelKey
                              /\ m.version = r.modelVersion
                              /\ m.featureSpec = FeatureSpecVersion

-----------------------------------------------------------------------------
(* Properties of the rate limiter under parallel callers *)

\* a pass of c through the loop body (refill and the token check) ends
LoopPass(c) == lpc[c] = "try" /\ lpc'[c] # "try"

\* the Wait of c returns nil
WaitSucceeds(c) == LoopPass(c) /\ lpc'[c] = "idle" /\ waitRes'[c] = "ok"

\* C13: under any interleaving of parallel Wait callers the token count
\* stays in 0..maxTokens, a Wait that returns nil leaves the count one below
\* what refill made it, and the Waits that returned nil plus the tokens left
\* are the initial maxTokens plus the tokens refill minted, so that no token
\* is handed out twice
C13_ThreadSafe ==
    /\ [](tokens \in 0..maxTokens)
    /\ [](GrantsIn(0, MaxTime) + tokens = maxTokens + minted)
    /\ [](GrantsIn(0, MaxTime) <= maxTokens + minted)
    /\ [][\A c \in Callers :
            WaitSucceeds(c) =>
                /\ refill(tokens, lastRefill).tokens > 0
                /\ tokens' = refill(tokens, lastRefill).tokens - 1]_vars

\* two callers raced for a minted token: one holds it, the other waits
C13_Witness ==
    \E c, d \in Callers :
        /\ c # d
        /\ waitRes[c] = "ok"
        /\ lpc[d] = "sleep"
        /\ emptySince[d] # NullTime
        /\ minted > 0
        /\ tokens = 0

\* C14: a Wait returns nil only on taking a token; otherwise it returns only
\* the error of its cancelled context, and then it has taken no token; a
\* Wait that finds no token while its context is cancelled, or whose context
\* is cancelled while its timer runs, is not left blocked on the timer: it
\* goes to return the error
C14_WaitCancellation ==
    /\ [][\A c \in Callers :
            (waitRes'[c] = "ok" /\ (waitRes[c] # "ok" \/ lpc[c] # "idle")) =>
                /\ refill(tokens, lastRefill).tokens > 0
                /\ tokens' = refill(tokens, lastRefill).tokens - 1]_vars
    /\ [][\A c \in Callers :
            (lpc[c] # "idle" /\ lpc'[c] = "idle" /\ waitRes'[c] # "ok") =>
                /\ waitRes'[c] = "ctx"
                /\ ctxDone[c]
                /\ lpc[c] = "cancelled"
                /\ tokens' = tokens /\ grants' = grants /\ minted' = minted]_vars
    /\ [](\A c \in Callers : (lpc[c] = "sleep" /\ ctxDone[c]) => now >= wakeAt[c])
    /\ [][\A c \in Callers :
            (LoopPass(c) /\ ctxDone[c] /\ refill(tokens, lastRefill).tokens = 0) =>
                lpc'[c] = "cancelled"]_vars
    /\ [][\A c \in Callers :
            lpc[c] = "cancelled" =>
                \/ lpc'[c] = "cancelled"
                \/ lpc'[c] = "idle" /\ waitRes'[c] = "ctx" /\ now' = now]_vars

\* a Wait on an empty bucket was cancelled and has returned the error before
\* its timer would have fired
C14_Witness ==
    \E c \in Callers :
        /\ lpc[c] = "idle"
        /\ waitRes[c] = "ctx"
        /\ emptySince[c] # NullTime
        /\ now < wakeAt[c]
        /\ tokens = 0

\* C15: while fewer than maxTokens Waits have returned nil, a Wait returns nil
\* at its first pass, with no time elapsing; a Wait that found no token does
\* not return nil before a full refillInterval has passed since the
\* lastRefill it found; and a Wait that makes its pass when nobody else is in
\* Wait and at least one refillInterval has passed since lastRefill returns
\* nil at that pass
C15_BurstAndRefill ==
    /\ [][\A c \in Callers :
            (LoopPass(c) /\ GrantsIn(0, MaxTime) < maxTokens) =>
                WaitSucceeds(c) /\ now' = now]_vars
    /\ [](now = 0 => tokens = maxTokens - grants[0])
    /\ [][\A c \in Callers :
            (WaitSucceeds(c) /\ emptySince[c] # NullTime) =>
                now >= emptySince[c] + refillInterval]_vars
    /\ [][\A c \in Callers :
            (/\ LoopPass(c)
             /\ \A d \in Callers \ {c} : lpc[d] = "idle"
             /\ now - lastRefill >= refillInterval) =>
                WaitSucceeds(c) /\ now' = now]_vars

\* the burst is used up at the instant of creation and a Wait that found the
\* bucket empty has returned nil one refillInterval after the lastRefill it
\* found
C15_Witness ==
    /\ grants[0] = maxTokens
    /\ maxTokens = MaxBurst
    /\ \E c \in Callers :
          /\ waitRes[c] = "ok"
          /\ lpc[c] = "idle"
          /\ emptySince[c] # NullTime
          /\ now = emptySince[c] + refillInterval

-----------------------------------------------------------------------------
(* Properties of the price service *)

\* the live value under price:<symbol> in the cache the call found
LiveBefore(symbol) ==
    {x \in lastCall.before : x.key = <<"price:", symbol>> /\ x.exp > lastCall.at}

\* the snapshots a call returned
Returned == {e[2] : e \in lastCall.out.snaps}

\* C16: GetCurrentPrice of an unsupported symbol fails with no cache and no
\* provider access; on a cache hit it returns the cached snapshot and does
\* not call the provider; on a miss it calls FetchPrices exactly once, issues
\* for every snapshot of the answer a SET of price:<symbol> with the TTL of
\* 90 s (the key then holds the snapshot until 90 s later, unless the write
\* failed) and returns the answer's snapshot of the requested symbol
C16_GetCurrentPrice ==
    lastCall.op = "GetCurrentPrice" =>
        LET symbol == lastCall.symbol
            out == lastCall.out
            live == LiveBefore(symbol)
            prices == lastCall.fetch.prices
        IN  /\ symbol \notin CoinGeckoID =>
                /\ out.err = "unsupported" /\ Returned = {}
                /\ out.gets = {} /\ out.sets = {} /\ out.fetched = 0
                /\ out.cache = lastCall.before
            /\ (symbol \in CoinGeckoID /\ symbol \notin lastCall.readFail /\ live # {}) =>
                /\ out.err = "none" /\ out.fetched = 0 /\ out.sets = {}
                /\ Returned = {UnmarshalSnapshot(x.data) : x \in live}
                /\ \A snap \in Returned : snap.symbol = symbol
                /\ out.cache = lastCall.before
            /\ (symbol \in CoinGeckoID /\ symbol \notin lastCall.readFail /\ live = {}) =>
                /\ out.fetched = 1
                /\ ~lastCall.fetch.err =>
                      /\ \A snap \in prices :
                            /\ [key |-> <<"price:", snap.symbol>>, ttl |-> 90] \in out.sets
                            /\ snap.symbol \notin lastCall.writeFail =>
                                  \E x \in out.cache :
                                      /\ x.key = <<"price:", snap.symbol>>
                                      /\ UnmarshalSnapshot(x.data) = snap
                                      /\ x.exp = lastCall.at + 90
                      /\ Cardinality(out.sets) = Cardinality(prices)
                      /\ Returned = {snap \in prices : snap.symbol = symbol}
                      /\ Returned # {} => out.err = "none"

\* a miss was answered by the provider: the snapshot is returned and cached
C16_Witness ==
    /\ lastCall.op = "GetCurrentPrice"
    /\ lastCall.symbol = "ETH"
    /\ LiveBefore("ETH") = {}
    /\ lastCall.out.fetched = 1
    /\ lastCall.out.err = "none"
    /\ Cardinality(lastCall.fetch.prices) = Len(SupportedSymbols) - 1
    /\ lastCall.writeFail = {}
    /\ \E x \in cache : x.key = <<"price:", "ETH">> /\ x.exp = lastCall.at + 90

\* C17: GetCurrentPrices returns no symbol more than once and never more
\* snapshots than there are supported symbols; the symbols found in the cache
\* come from the cache and only the missing ones from the provider
C17_GetCurrentPrices ==
    lastCall.op = "GetCurrentPrices" =>
        /\ \A e, f \in lastCall.out.snaps : e[2].symbol = f[2].symbol => e = f
        /\ Cardinality(lastCall.out.snaps) <= Len(SupportedSymbols)
        /\ lastCall.out.fetched <= 1
        /\ \A e \in lastCall.out.snaps :
              e[1] = "provider" =>
                  (LiveBefore(e[2].symbol) = {} \/ e[2].symbol \in lastCall.readFail)

\* C18: a failed cache read counts as a miss: the call goes on to the
\* provider and returns what it would return were the key absent; and what
\* GetCurrentPrice, GetCurrentPrices and RefreshPrices return (snapshots and
\* error) is the same whether or not cache writes fail
C18_CacheFailuresDegrade ==
    LET c == lastCall
        absent == {x \in c.before : \A symbol \in c.readFail : x.key # <<"price:", symbol>>}
    IN  /\ c.op = "GetCurrentPrice" =>
            /\ c.symbol \in c.readFail =>
                  /\ c.out.fetched = 1
                  /\ ~c.fetch.err => Returned = {snap \in c.fetch.prices : snap.symbol = c.symbol}
            /\ LET dry == GetCurrentPrice(c.before, c.symbol, c.readFail, c.fetch, {}, c.at)
                   miss == GetCurrentPrice(absent, c.symbol, {}, c.fetch, c.writeFail, c.at)
               IN  /\ c.out.snaps = dry.snaps /\ c.out.err = dry.err
                   /\ c.out.snaps = miss.snaps /\ c.out.err = miss.err
        /\ c.op = "GetCurrentPrices" =>
            /\ c.readFail # {} => c.out.fetched = 1
            /\ LET dry == GetCurrentPrices(c.before, c.readFail, c.fetch, {}, c.at)
                   miss == GetCurrentPrices(absent, {}, c.fetch, c.writeFail, c.at)
               IN  /\ c.out.snaps = dry.snaps /\ c.out.err = dry.err
                   /\ c.out.snaps = miss.snaps /\ c.out.err = miss.err
        /\ c.op = "RefreshPrices" =>
            /\ c.out.err = (IF c.fetch.err THEN "provider" ELSE "none")
            /\ c.out.fetched = 1

\* the read of a cached key failed and every write failed: the provider's
\* snapshot came back all the same
C18_Witness ==
    /\ lastCall.op = "GetCurrentPrice"
    /\ lastCall.symbol = "BTC"
    /\ "BTC" \in lastCall.readFail
    /\ LiveBefore("BTC") # {}
    /\ lastCall.writeFail = CoinGeckoID
    /\ lastCall.out.err = "none"
    /\ \E snap \in Returned : snap.priceUSD = 2
    /\ lastCall.out.cache = lastCall.before

-----------------------------------------------------------------------------
(* Properties of the price poller *)

\* the symbols tier t refreshed in its units k+1 .. k+n
UnitsWindow(t, k, n) ==
    [i \in 1..(n * CoinsPerUnit(t)) |-> refreshed[t][k * CoinsPerUnit(t) + i]]

\* C19: tier T2 refreshes 2 symbols per unit of work and tier T3 one, each
\* going on in SupportedSymbols order from where its previous unit stopped
\* and wrapping around: over any 5 consecutive units of T2, and any 10 of T3,
\* every supported symbol is refreshed exactly once, whether or not refreshes
\* fail
C19_RoundRobin ==
    \A t \in {"T2", "T3"} :
        LET per == CoinsPerUnit(t)
            n == Len(SupportedSymbols) \div per
        IN  /\ per = (IF t = "T2" THEN 2 ELSE 1)
            /\ Len(SupportedSymbols) = 10
            /\ Len(refreshed[t]) = per * tiers[t].units
            /\ \A i \in 1..Len(refreshed[t]) :
                  refreshed[t][i] = SupportedSymbols[((i - 1) % 10) + 1]
            /\ \A k \in 0..(tiers[t].units - n) :
                  LET w == UnitsWindow(t, k, n)
                  IN  /\ Len(w) = 10
                      /\ \A symbol \in CoinGeckoID :
                            Cardinality({i \in 1..10 : w[i] = symbol}) = 1

\* both tiers have wrapped around, with failed refreshes on the way
C19_Witness ==
    /\ tiers["T2"].units = 6 /\ tiers["T2"].erred
    /\ tiers["T3"].units = 11 /\ tiers["T3"].erred
    /\ refreshed["T2"][11] = "BTC"
    /\ refreshed["T3"][11] = "BTC"

\* a unit of work of tier t runs
UnitRuns(t) == tiers'[t].units # tiers[t].units

\* C20: each tier runs its first unit of work as soon as it starts (T2 and
\* T3 after their startup delay) before it waits for any tick, and then one
\* unit for each tick it takes from its ticker; a unit that fails leaves the
\* tier in its loop, so the tier ends only when the context is cancelled
C20_TiersKeepRunning ==
    /\ [][\A t \in Tiers :
            UnitRuns(t) =>
                /\ tiers'[t].units = tiers[t].units + 1
                /\ \/ tiers[t].pc = "start" /\ tiers[t].units = 0
                   \/ tiers[t].pc = "wait" /\ tiers[t].pending
                /\ ~tiers'[t].pending
                /\ tiers'[t].pc = "wait"]_vars
    /\ [][\A t \in Tiers :
            (tiers[t].pc = "start" /\ tiers'[t] # tiers[t]) => UnitRuns(t)]_vars
    /\ [](\A t \in Tiers : tiers[t].pc = "wait" => tiers[t].units >= 1)
    /\ [](\A t \in Tiers : tiers[t].units = 0 => ~tiers[t].pending)
    /\ [](\A t \in Tiers : tiers[t].pc = "stopped" => pollDone)
    /\ [](tiers["T1"].pc # "delay")
    /\ [](\A t \in Tiers :
            (tiers[t].pc = "wait" /\ tiers[t].pending /\ tiers[t].units < MaxUnits(t)) =>
                ENABLED PollNext(t))

\* every tier has had a failed unit and has run a further unit after it
C20_Witness ==
    \A t \in Tiers :
        /\ tiers[t].erred
        /\ tiers[t].units >= 2
        /\ tiers[t].pc = "wait"
        /\ tiers[t].pending

-----------------------------------------------------------------------------
(* C21: after the context is cancelled Start returns and the three tier
   tasks terminate; a tier that is still in its startup delay at the
   cancellation terminates without having run any refresh, and a tier that
   has taken the ctx.Done() case runs nothing more. *)

AllStopped == startPc = "returned" /\ \A t \in Tiers : tiers[t].pc = "stopped"

C21_CancelStopsTiers ==
    /\ pollDone ~> AllStopped
    /\ [][\A t \in Tiers :
            /\ tiers[t].pc = "stopped" => tiers'[t] = tiers[t] /\ refreshed'[t] = refreshed[t]
            /\ (tiers[t].pc = "delay" /\ pollDone) =>
                   /\ refreshed'[t] = <<>>
                   /\ tiers'[t].pc \in {"delay", "stopped"}
            /\ (startPc = "returned" /\ tiers[t].pc # "stopped") => pollDone]_vars

C21_Witness ==
    /\ AllStopped
    /\ tiers["T1"].units >= 1
    /\ tiers["T2"].units = 0 /\ refreshed["T2"] = <<>>
    /\ tiers["T3"].units >= 1

-----------------------------------------------------------------------------
(* C22: a job runner built with its service runs one cycle at once when
   started and then one cycle per tick it takes; a cycle that ends in an
   error leaves the runner in its loop; a runner built without a service
   runs no cycle; Start returns only after the context has been cancelled. *)

C22_RunnerLoop ==
    /\ [](\A j \in Jobs :
            /\ jobs[j].pc = "start" => jobs[j].cycles = 0 /\ jobs[j].ticks = 0
            /\ (jobs[j].service /\ jobs[j].pc # "start") =>
                   jobs[j].cycles = jobs[j].ticks + 1
            /\ ~jobs[j].service => jobs[j].cycles = 0
            /\ jobs[j].pc = "returned" => jobCtx)
    /\ [][\A j \in Jobs :
            (jobs'[j].cycles = jobs[j].cycles + 1 /\ jobs'[j].last # "ok") =>
                jobs'[j].pc = "wait"]_vars

C22_Witness ==
    /\ jobCtx
    /\ jobs["marketintel"].pc = "returned"
    /\ jobs["marketintel"].cycles = 3
    /\ jobs["marketintel"].last = "error"
    /\ jobs["inference"].last = "refresh_error" /\ jobs["inference"].cycles = 2
    /\ ~jobs["resolver"].service /\ jobs["resolver"].pc = "returned"

\* the claim as written: every started runner has run its first cycle
C22_EveryRunnerCycles ==
    \A j \in Jobs : jobs[j].pc # "start" => jobs[j].cycles >= 1

-----------------------------------------------------------------------------
(* C30: the weights BuildComposite returns are exactly those of the
   available components, each its base weight over the sum of the available
   base weights, and they sum to 1; with no component available the result
   is score 0, confidence 0, direction hold, risk 5. *)

C30_Renormalized ==
    fnRet.fn = "BuildComposite" =>
        LET avail == {n \in ComponentNames : fnArg[n].available}
            total == SumOf(avail, BaseWeights)
            out == fnRet.val
        IN  IF avail = {}
            THEN /\ out.score = 0 /\ out.confidence = 0
                 /\ out.direction = DirectionHold /\ out.risk = 5
            ELSE /\ DOMAIN out.weights = avail
                 /\ \A n \in avail :
                       out.weights[n][1] * total = BaseWeights[n] * out.weights[n][2]
                 /\ \A n \in avail : out.weights[n][2] > 0
                 /\ LET den == out.weights[CHOOSE n \in avail : TRUE][2]
                    IN  /\ \A n \in avail : out.weights[n][2] = den
                        /\ SumOf(avail, [n \in avail |-> out.weights[n][1]]) = den

C30_Witness ==
    /\ fnRet.fn = "BuildComposite"
    /\ DOMAIN fnRet.val.weights = {"fear_greed", "news"}
    /\ fnRet.val.direction = DirectionShort

-----------------------------------------------------------------------------
(* C23: within one market-intel cycle the item upsert comes before the
   item-symbol upserts, these before the score updates, these before the
   composite upserts; and each signal insert comes after the upsert of its
   composite and before the back-reference of the signal id onto it. *)

Rank(op) ==
    CASE op = "UpsertItems" -> 1
      [] op = "UpsertItemSymbols" -> 2
      [] op = "UpdateItemSentiment" -> 3
      [] op = "UpsertCompositeSnapshot" -> 4
      [] OTHER -> 0

SameKey(a, b) ==
    a.interval = b.interval /\ a.symbol = b.symbol /\ a.bucket = b.bucket

C23_WriteOrder ==
    /\ \A i, j \in DOMAIN rcLog :
          (i < j /\ Rank(rcLog[i].op) > 0 /\ Rank(rcLog[j].op) > 0) =>
              Rank(rcLog[i].op) <= Rank(rcLog[j].op)
    /\ \A j \in DOMAIN rcLog :
          rcLog[j].op = "InsertSignals" =>
              \E i \in 1..(j - 1) :
                 rcLog[i].op = "UpsertCompositeSnapshot" /\ SameKey(rcLog[i], rcLog[j])
    /\ \A k \in DOMAIN rcLog :
          rcLog[k].op = "AttachCompositeSignalID" =>
              \E j \in 1..(k - 1) :
                 /\ rcLog[j].op = "InsertSignals" /\ SameKey(rcLog[j], rcLog[k])
                 /\ \A i \in 1..(j - 1) :
                       (rcLog[i].op = "UpsertCompositeSnapshot" /\ SameKey(rcLog[i], rcLog[k]))
                          => i < j

Ops(log) == {log[i].op : i \in DOMAIN log}

C23_Witness ==
    /\ rc.pc = "done"
    /\ {"UpsertItems", "UpsertItemSymbols", "UpdateItemSentiment",
        "UpsertCompositeSnapshot", "InsertSignals", "AttachCompositeSignalID"}
          \subseteq Ops(rcLog)

(* C24: RunCycle returns an error only when its storage or a required
   dependency is un-initialized; every other failure is accumulated in the
   errors of the result, which is returned with no error. *)

C24_OnlyUninitializedIsFatal ==
    (rc.pc = "done" /\ rc.err # "none") => rc.repoNil

(* C25: in a cycle that meets no store error, one composite is upserted for
   each (configured interval, symbol) pair, at the start of the last closed
   bucket of the interval; with a signal store configured the signals
   written are those of the composites whose direction is long or short,
   each with indicator fund_sentiment_composite and the bucket time as its
   timestamp; with no signal store no signal is written. *)

IntervalUnits(interval) == IF interval = "4h" THEN 4 * HourUnits ELSE HourUnits

CleanCycle == rc.pc = "done" /\ rc.err = "none" /\ ~rc.storeErr

CompositeCalls == {i \in DOMAIN rcLog : rcLog[i].op = "UpsertCompositeSnapshot"}

SignalCalls == {i \in DOMAIN rcLog : rcLog[i].op = "InsertSignals"}

Directional == {i \in CompositeCalls : rcLog[i].direction \in {DirectionLong, DirectionShort}}

OneCompositePerPair ==
    /\ \A k \in DOMAIN rc.intervals : \A m \in DOMAIN RcSymbols :
          LET d == IntervalUnits(rc.intervals[k])
              mine == {i \in CompositeCalls :
                          /\ rcLog[i].interval = rc.intervals[k]
                          /\ rcLog[i].symbol = RcSymbols[m]}
          IN  /\ Cardinality(mine) = 1
              /\ \A i \in mine :
                    /\ rcLog[i].bucket % d = 0
                    /\ rcLog[i].bucket + d <= rc.now
                    /\ rc.now < rcLog[i].bucket + 2 * d
    /\ Cardinality(CompositeCalls) = Len(rc.intervals) * Len(RcSymbols)

SignalsOfComposites ==
    /\ \A j \in SignalCalls :
          /\ rcLog[j].indicator = IndicatorFundSentimentComposite
          /\ \E i \in Directional :
                /\ SameKey(rcLog[i], rcLog[j])
                /\ rcLog[i].direction = rcLog[j].direction
    /\ Cardinality(SignalCalls) = rc.res.signalsWritten

C25_CompositesAndSignals ==
    CleanCycle =>
        /\ OneCompositePerPair
        /\ SignalsOfComposites
        /\ rc.res.signalsWritten =
              IF rc.signalStore THEN Cardinality(Directional) ELSE 0

C25_Witness ==
    /\ CleanCycle
    /\ rc.signalStore
    /\ Len(rc.intervals) = 2
    /\ rc.now = 19
    /\ rc.res.signalsWritten = 3
    /\ \E i, j \in Directional : rcLog[i].direction # rcLog[j].direction
    /\ Cardinality(CompositeCalls) > Cardinality(Directional)

\* the claim as written: the signals written are as many as the directional
\* composites, whatever the configuration
C25_SignalsAlways ==
    CleanCycle =>
        /\ OneCompositePerPair
        /\ SignalsOfComposites
        /\ rc.res.signalsWritten = Cardinality(Directional)

-----------------------------------------------------------------------------
(* C26: UpsertCandles is idempotent and last-write-wins per key (symbol,
   interval, openTime): the table holds at most one candle per key, with the
   values of the most recent upsert of that key; applying the same batch
   again changes nothing; candles with other keys are untouched. *)

C26_UpsertCandles ==
    /\ [](/\ \A r1, r2 \in candleRows : CandleKey(r1) = CandleKey(r2) => r1 = r2
          /\ \A k \in CandleKeys :
                IF candleLast[k] = <<>>
                THEN ~\E r \in candleRows : CandleKey(r) = k
                ELSE Candle(k, candleLast[k]) \in candleRows)
    /\ [][/\ ~candleCall'.failed =>
                UpsertCandles(candleRows', candleCall'.batch) = candleRows'
          /\ \A r \in candleRows :
                (\A i \in DOMAIN candleCall'.batch :
                    CandleKey(candleCall'.batch[i]) # CandleKey(r)) => r \in candleRows'
          /\ \A r \in candleRows' \ candleRows :
                \E i \in DOMAIN candleCall'.batch : candleCall'.batch[i] = r]_vars

C26_Witness ==
    /\ Len(candleCall.batch) = 2
    /\ CandleKey(candleCall.batch[1]) = CandleKey(candleCall.batch[2])
    /\ candleCall.batch[1] # candleCall.batch[2]
    /\ ~candleCall.failed
    /\ candleCall.batch[2] \in candleRows
    /\ Cardinality(candleRows) = 3

-----------------------------------------------------------------------------
(* C27: for an interval of 5m, 15m, 1h, 4h or 1d the bucketer returns one
   candle per bucket that holds a price; its openTime is a multiple of the
   interval, its open an earliest and its close a latest price of the
   bucket, its high and low the largest and smallest price of the bucket, so
   that low <= min(open, close) <= max(open, close) <= high. An empty series
   or an unknown interval gives an empty result. *)

IntervalMinutes == [m5 |-> 5, m15 |-> 15, h1 |-> 60, h4 |-> 240, d1 |-> 1440]

IntervalName == [m5 |-> "5m", m15 |-> "15m", h1 |-> "1h", h4 |-> "4h", d1 |-> "1d"]

KnownIntervals == {IntervalName[k] : k \in DOMAIN IntervalName}

MinutesOf(interval) ==
    IntervalMinutes[CHOOSE k \in DOMAIN IntervalName : IntervalName[k] = interval]

C27_Bucketer ==
    fnRet.fn = "buildCandlesFromMarketChart" =>
        LET pts == fnArg.prices
            out == fnRet.val
        IN  IF pts = <<>> \/ fnArg.interval \notin KnownIntervals
            THEN out = <<>>
            ELSE LET d == MinutesOf(fnArg.interval)
                     In(b) == {i \in DOMAIN pts : b <= pts[i][1] /\ pts[i][1] < b + d}
                     starts == {b \in 0..61 : b % d = 0 /\ In(b) # {}}
                 IN  /\ Len(out) = Cardinality(starts)
                     /\ {out[i].openTime : i \in DOMAIN out} = starts
                     /\ \A i \in DOMAIN out :
                           LET c == out[i]
                               P == In(c.openTime)
                           IN  /\ c.openTime % d = 0
                               /\ \E j \in P : /\ c.open = pts[j][2]
                                               /\ \A k \in P : pts[j][1] <= pts[k][1]
                               /\ \E j \in P : /\ c.close = pts[j][2]
                                               /\ \A k \in P : pts[k][1] <= pts[j][1]
                               /\ \E j \in P : c.high = pts[j][2]
                               /\ \E j \in P : c.low = pts[j][2]
                               /\ \A k \in P : c.low <= pts[k][2] /\ pts[k][2] <= c.high
                               /\ c.low <= c.open /\ c.low <= c.close
                               /\ c.open <= c.high /\ c.close <= c.high

C27_Witness ==
    /\ fnRet.fn = "buildCandlesFromMarketChart"
    /\ fnArg.interval = "5m"
    /\ ~IsSortedByTime(fnArg.prices)
    /\ Len(fnRet.val) = 2
    /\ \E i \in DOMAIN fnRet.val :
          /\ fnRet.val[i].open = 3 /\ fnRet.val[i].close = 1

-----------------------------------------------------------------------------
(* C28: for every feature row BuildRows emits for a candle c, the label
   targetUp4h is present exactly when the history holds a candle whose open
   time is c's open time plus targetHours hours, and then it is (that
   candle's close > c's close); also for histories with missing candles. *)

C28_LabelByOpenTime ==
    fnRet.fn = "BuildRows" =>
        LET hours == IF fnArg.targetHours <= 0 THEN 4 ELSE fnArg.targetHours
        IN  \A k \in DOMAIN fnRet.val :
               LET row == fnRet.val[k]
                   c == CHOOSE x \in fnArg.candles : x.openTime = row.openTime
                   targets == {x \in fnArg.candles : x.openTime = c.openTime + hours}
               IN  /\ (row.targetUp4h # "absent") <=> (targets # {})
                   /\ \A x \in targets :
                         row.targetUp4h = (IF x.close > c.close THEN "true" ELSE "false")

-----------------------------------------------------------------------------
(* C29: for every dataset of at least 3 labelled rows, chronologicalSplit
   returns train, validation and test partitions that are each non-empty
   and that, concatenated in this order, are the input: contiguous, pairwise
   disjoint, every row exactly once, every train row before every validation
   row and every validation row before every test row. *)

C29_Split ==
    (fnRet.fn = "chronologicalSplit" /\ Len(fnArg.rows) >= 3) =>
        LET r == fnRet.val
        IN  /\ Len(r.train) >= 1 /\ Len(r.val) >= 1 /\ Len(r.test) >= 1
            /\ r.train \o r.val \o r.test = fnArg.rows
            /\ Len(r.train) + Len(r.val) + Len(r.test) = Len(fnArg.rows)
            /\ \A i \in DOMAIN r.train, j \in DOMAIN r.val, k \in DOMAIN r.test :
                  r.train[i][1] < r.val[j][1] /\ r.val[j][1] < r.test[k][1]

\* the smallest dataset, where the 70% and 85% cuts coincide and the clamps
\* make the three partitions of one row each
C29_Witness ==
    /\ fnRet.fn = "chronologicalSplit"
    /\ Len(fnArg.rows) = 3
    /\ chronologicalSplitNaive(fnArg.rows).val = <<>>
    /\ Len(fnRet.val.train) = 1 /\ Len(fnRet.val.val) = 1 /\ Len(fnRet.val.test) = 1

-----------------------------------------------------------------------------
(* C31: for every input and every source (news, reddit, fear_greed), every
   symbol ExtractSymbolsFromContent returns is in the supported set, the
   returned list is sorted ascending and free of duplicates, and extracting
   again from the same input returns the same list. *)

C31_SortedUniqueSupported ==
    fnRet.fn = "ExtractSymbolsFromContent" =>
        LET out == fnRet.val
        IN  /\ \A i \in DOMAIN out : \E symbol \in CoinGeckoID : out[i] = Spell[symbol]
            /\ \A i \in DOMAIN out : \A j \in DOMAIN out : i < j => Less(out[i], out[j])
            /\ ExtractSymbolsFromContent(fnArg) = out

-----------------------------------------------------------------------------
(* C32: Scorer.Score returns exactly one score per input item, in input
   order, and never fails because of the LLM: when no LLM is configured or
   the LLM call of a batch fails, every item of that batch keeps its
   heuristic result (model heuristic:v1) whatever the other batches answer;
   a heuristic entry is replaced only for an input item an LLM row names. *)

C32_ScoreFallsBack ==
    fnRet.fn = "Score" =>
        LET s == NewScorer(fnArg.hasLLM, fnArg.batchSize)
            items == fnArg.items
            out == fnRet.val.out
        IN  /\ ~fnRet.val.err
            /\ Len(out) = Len(items)
            /\ \A i \in DOMAIN items : out[i].ItemID = items[i].ID
            /\ \A i \in DOMAIN items :
                  (~fnArg.hasLLM \/ fnArg.answers[BatchOf(s, i)].err) =>
                      out[i] = Heuristic(items[i]) /\ out[i].Model = "heuristic:v1"
            /\ \A i \in DOMAIN items :
                  out[i] # Heuristic(items[i]) =>
                      \E b \in DOMAIN fnArg.answers :
                          ~fnArg.answers[b].err /\ items[i].ID \in fnArg.answers[b].ids

\* the first batch fails, the second succeeds with rows for an item of each
C32_Witness ==
    /\ fnRet.fn = "Score"
    /\ fnArg.hasLLM /\ fnArg.batchSize = 1 /\ Len(fnArg.items) = 2
    /\ fnArg.items[1].ID = 1
    /\ fnArg.answers[1].err
    /\ ~fnArg.answers[2].err /\ fnArg.answers[2].ids = {1, 2, 9}
    /\ fnRet.val.out[1].Model = "heuristic:v1"
    /\ fnRet.val.out[2].Model = "llm:gpt-4o-mini" /\ fnRet.val.out[2].Score = One

-----------------------------------------------------------------------------
(* C33: the ensemble score equals 0.30 classic + 0.35 (2 logProb - 1) +
   0.35 (2 xgbProb - 1) clamped to [-1, 1], an absent model contributing
   probability 0.5; the direction is long exactly when the score is above
   0.15, short exactly when it is below -0.15, and hold otherwise. The sum
   is taken in millionths. *)

C33_EnsembleScore ==
    fnRet.fn = "ensemble" =>
        LET p(has, v) == IF ~has THEN 5000 ELSE IF v < 0 THEN 0 ELSE IF v > 10000 THEN 10000 ELSE v
            sum == 30 * fnArg.classic + 35 * (2 * p(fnArg.hasLog, fnArg.log) - 10000)
                       + 35 * (2 * p(fnArg.hasXgb, fnArg.xgb) - 10000)
            clamped == IF sum > 1000000 THEN 1000000
                       ELSE IF sum < -1000000 THEN -1000000 ELSE sum
        IN  /\ 100 * fnRet.val.score = clamped
            /\ (fnRet.val.direction = "long") <=> (clamped > 150000)
            /\ (fnRet.val.direction = "short") <=> (clamped < -150000)
            /\ (fnRet.val.direction = "hold") <=> (clamped >= -150000 /\ clamped <= 150000)

\* a score of exactly 0.15 with the xgboost model absent: hold
C33_Witness ==
    /\ fnRet.fn = "ensemble"
    /\ fnArg.hasLog /\ ~fnArg.hasXgb
    /\ fnRet.val.score = 1500
    /\ fnRet.val.direction = "hold"

-----------------------------------------------------------------------------
(* C34: a Wait call whose context is never cancelled eventually returns
   success, also while other callers keep calling Wait on the same limiter:
   with time advancing and every caller scheduled fairly, no waiting caller
   is starved forever. *)

InWait(c) == lpc[c] # "idle" /\ ~ctxDone[c]

WaitOver(c) == (lpc[c] = "idle" /\ waitRes[c] = "ok") \/ ctxDone[c]

\* a caller other than c takes a token
OtherTakes(c) ==
    \E d \in Callers \ {c} :
        lpc[d] = "try" /\ lpc'[d] = "idle" /\ waitRes'[d] = "ok"

C34_NoStarvation == \A c \in Callers : InWait(c) ~> WaitOver(c)

\* C34 as the code has it: such a Wait call returns success unless the other
\* callers take tokens again and again for ever
C34_SuccessUnlessOvertaken ==
    \A c \in Callers : ([]<><<OtherTakes(c)>>_vars) \/ (InWait(c) ~> WaitOver(c))

\* c1 sleeps on the empty bucket after c2 was given the token
C34_Witness ==
    /\ lpc["c1"] = "sleep" /\ wakeAt["c1"] > now /\ ~ctxDone["c1"]
    /\ tokens = 0
    /\ lpc["c2"] = "idle" /\ waitRes["c2"] = "ok"

-----------------------------------------------------------------------------
(* C35: every due unresolved prediction whose open and target candles both
   exist is eventually resolved by the repeated resolver cycles of batch
   size MaxBatch, also when MaxBatch or more older due predictions can never
   be resolved because their candles are missing. *)

C35_EventuallyResolved ==
    \A id \in 1..Len(DuePredictions) :
        (\E r \in preds : /\ r.id = id /\ r.resolvedAt = NullTime
                          /\ r.targetTime <= now /\ HasCandles(r))
        ~> (\E r \in preds : r.id = id /\ r.resolvedAt # NullTime)

-----------------------------------------------------------------------------
(* C36: for each model key the version number of the active model never
   decreases: whatever the interleaving of the scheduled and the manually
   triggered training cycles, every step that changes the active version of
   a key makes active a version greater than the one active before it. *)

C36_ActiveVersionGrows ==
    [][\A k \in Keys :
          \A before \in ActiveRows(models, k) : \A after \in ActiveRows(models', k) :
              after.version >= before.version]_vars


\* C37: a stored composite snapshot that carries a signalId refers to a stored
\* fund_sentiment_composite signal of its own bucket (timestamp = openTime)
\* and of its current direction; in particular a composite whose direction is
\* hold carries no signalId, also after the bucket is computed again
C37_CompositeSignalAgrees ==
    \A c \in composites :
        c.signalId # NullId =>
            /\ c.direction # DirectionHold
            /\ \E g \in signals :
                  /\ g.id = c.signalId
                  /\ g.indicator = IndicatorFundSentimentComposite
                  /\ g.timestamp = c.openTime
                  /\ g.direction = c.direction


\* C38: for every indicator and timestamp (of one symbol and interval) the
\* signal store holds signals of at most one direction: never both a long and
\* a short signal, also after a feature row or bucket is computed again
C38_OneDirection ==
    \A g, h \in signals :
        (g.indicator = h.indicator /\ g.timestamp = h.timestamp) =>
            g.direction = h.direction

\* C38 as the code has it: for every indicator, timestamp and direction the
\* signal store holds at most one signal, also after a feature row or bucket
\* is computed again; a long and a short signal may stand side by side
C38_OnePerDirection ==
    \A g, h \in signals :
        (/\ g.indicator = h.indicator
         /\ g.timestamp = h.timestamp
         /\ g.direction = h.direction) => g = h

\* a market-intel bucket computed twice and a feature row predicted twice
\* each left a long and a short signal
C38_Witness ==
    /\ mi.pc = "idle"
    /\ inf.pc = "idle"
    /\ \A indicator \in {IndicatorFundSentimentComposite, IndicatorMLLogRegUp4H} :
          \E g, h \in signals :
             /\ g.indicator = indicator
             /\ h.indicator = indicator
             /\ g.timestamp = h.timestamp
             /\ g.direction = DirectionLong
             /\ h.direction = DirectionShort

\* C39: the scorer writes the sentiment of an item at most once: once an
\* item's scoredAt is set, no step of any cycle, later or overlapping, changes
\* its score, confidence, label or model, and ingesting the item again does
\* not make it unscored
C39_ScoredOnce ==
    [][\A r \in intelItems :
          r.scoredAt # NullTime =>
              \E q \in intelItems' :
                 /\ q.id = r.id
                 /\ q.key = r.key
                 /\ q.scoredAt # NullTime
                 /\ q.score = r.score
                 /\ q.confidence = r.confidence
                 /\ q.label = r.label
                 /\ q.model = r.model]_vars

\* C40: for every number n >= 1 of labelled samples that passes the
\* MinTrainSamples check (which may be configured as low as 1), the
\* chronological split completes without a runtime failure and TrainAll
\* returns results or an error
C40_SplitNeverAborts ==
    (/\ fnRet.fn = "TrainAll"
     /\ Len(fnArg.rows) >= 1
     /\ Len(fnArg.rows) >= NewService(fnArg.minTrainSamples).MinTrainSamples) =>
        /\ ~chronologicalSplit(fnArg.rows).panic
        /\ fnRet.val \in {"results", "error: dataset split produced empty partitions",
                          "error: train"}

====
